---- MODULE Spec2Model ----
(***************************************************************************)
(* web-poet page inputs: the lazily resolved encoding and text of an       *)
(* HttpResponse (web_poet/page_inputs/http.py), the equality of the Url   *)
(* values, the headers (from_bytes_dict, lookup, declared encoding), json, *)
(* construction of and assignment to HttpRequest / HttpResponse,           *)
(* HttpClient.batch_execute (web_poet/requests.py), the registry of       *)
(* @field names and the processors of a field (web_poet/fields.py).        *)
(*                                                                         *)
(* Bytes are the integers 0..255, a body is a sequence of bytes, a text is *)
(* a sequence of code points.  Charset labels are strings.  The codecs and *)
(* the w3lib.encoding helpers that http.py imports are modelled by what    *)
(* they do on the bodies and labels of this model.                         *)
(***************************************************************************)
EXTENDS Integers, Sequences, FiniteSets, TLC

VARIABLES
    enc_arg,      \* HttpResponse._encoding: the explicit label, or None
    headers,      \* HttpResponse.headers: a sequence of <<name, value>> pairs
    body,         \* HttpResponse.body: a sequence of bytes
    insts,        \* per instance: _cached_text and the memoizemethod_noargs caches
    got,          \* per instance: what the accesses so far returned
    pc,           \* per reader thread: position inside text / encoding
    loc,          \* per reader thread: local variables
    seen,         \* per reader thread: what its finished access returned
    url_a,        \* Url on the left of ==
    url_b,        \* Url, or string, on the right of ==
    b_is_str,     \* whether the right operand is a str
    eq_res,       \* <<result>> of the __eq__ call, <<>> before it
    fb_arg,       \* from_bytes_dict: the mapping, a sequence of <<key, value>>
    fb_encoding,  \* from_bytes_dict: the encoding argument
    fb_res,       \* from_bytes_dict: what the call returned or raised
    hd_res,       \* headers: what the last get / getall / [] returned or raised
    json_got,     \* per instance: what the json() calls so far returned
    obj,          \* <<an HttpRequest / HttpResponse>>: its class and fields
    obj_init,     \* <<the constructor call>>: the class and the arguments
    ctor_exc,     \* the exception the constructor raised, or None
    tasks,        \* batch_execute: the downloads started for the requests
    gather,       \* batch_execute: state of the asyncio.gather future
    batch_ret,    \* batch_execute: what the call returned or raised
    classes,      \* fields: the classes defined so far and their attributes
    fld,          \* fields: the state of one _field descriptor
    page_cache,   \* fields: the value cached_method keeps for each page object
    proc_calls    \* fields: the calls made to the processors of the field

\* the variables of from_bytes_dict, of header lookups, of json(), of
\* construction and assignment, of batch_execute, of the field registry
fbVars == <<fb_arg, fb_encoding, fb_res>>
hdVars == <<hd_res>>
jsonVars == <<json_got>>
objVars == <<obj, obj_init, ctor_exc>>
batchVars == <<tasks, gather, batch_ret>>
fieldVars == <<classes, fld, page_cache, proc_calls>>

vars == <<enc_arg, headers, body, insts, got, pc, loc, seen,
          url_a, url_b, b_is_str, eq_res,
          fbVars, hdVars, jsonVars, objVars, batchVars, fieldVars>>

\* Python's None
None == "<None>"

\* U+FFFD, the replacement character of errors='replace'
REPLACEMENT == 65533

\* marks a position where a strict decoder raises UnicodeDecodeError
ERR == -1

----------------------------------------------------------------------------
(* Sequence helpers                                                        *)

SubSeqFrom(s, i) == IF i > Len(s) THEN <<>> ELSE SubSeq(s, i, Len(s))

startswith(s, p) == Len(p) <= Len(s) /\ SubSeq(s, 1, Len(p)) = p

Range(s) == {s[i] : i \in 1..Len(s)}

\* Below, CHOOSE out \in {e : x \in {v}} : TRUE is e with x bound to the value
\* of v: a local variable assigned once.

----------------------------------------------------------------------------
(* Python codecs: bytes.decode(codec, errors).  Each decoder yields the    *)
(* code points, with ERR where the strict decoder raises; errors='replace' *)
(* puts U+FFFD there.                                                      *)

IsCont(b) == b >= 128 /\ b <= 191

\* the range of the second byte after a UTF-8 lead byte
Utf8SecondOk(lead, b) ==
    CASE lead = 224 -> b >= 160 /\ b <= 191
      [] lead = 237 -> b >= 128 /\ b <= 159
      [] lead = 240 -> b >= 144 /\ b <= 191
      [] lead = 244 -> b >= 128 /\ b <= 143
      [] OTHER -> IsCont(b)

\* number of bytes of the sequence a lead byte starts; 0 for an invalid start
Utf8Need(c) ==
    CASE c < 128 -> 1
      [] c >= 194 /\ c <= 223 -> 2
      [] c >= 224 /\ c <= 239 -> 3
      [] c >= 240 /\ c <= 244 -> 4
      [] OTHER -> 0

RECURSIVE Utf8From(_, _)
Utf8From(b, i) ==
    IF i > Len(b) THEN <<>>
    ELSE LET c == b[i]
             n == Utf8Need(c)
             has(k) == i + k <= Len(b)
         IN  CASE n = 0 -> <<ERR>> \o Utf8From(b, i + 1)
               [] n = 1 -> <<c>> \o Utf8From(b, i + 1)
               [] n >= 2 /\ ~has(1) -> <<ERR>>
               [] n >= 2 /\ has(1) /\ ~Utf8SecondOk(c, b[i + 1]) ->
                      <<ERR>> \o Utf8From(b, i + 1)
               [] n = 2 /\ has(1) /\ Utf8SecondOk(c, b[i + 1]) ->
                      <<(c - 192) * 64 + (b[i + 1] - 128)>> \o Utf8From(b, i + 2)
               [] n >= 3 /\ has(1) /\ Utf8SecondOk(c, b[i + 1]) /\ ~has(2) -> <<ERR>>
               [] n >= 3 /\ has(2) /\ Utf8SecondOk(c, b[i + 1]) /\ ~IsCont(b[i + 2]) ->
                      <<ERR>> \o Utf8From(b, i + 2)
               [] n = 3 /\ has(2) /\ Utf8SecondOk(c, b[i + 1]) /\ IsCont(b[i + 2]) ->
                      <<(c - 224) * 4096 + (b[i + 1] - 128) * 64 + (b[i + 2] - 128)>>
                          \o Utf8From(b, i + 3)
               [] n = 4 /\ has(2) /\ Utf8SecondOk(c, b[i + 1]) /\ IsCont(b[i + 2])
                        /\ ~has(3) -> <<ERR>>
               [] n = 4 /\ has(3) /\ Utf8SecondOk(c, b[i + 1]) /\ IsCont(b[i + 2])
                        /\ ~IsCont(b[i + 3]) -> <<ERR>> \o Utf8From(b, i + 3)
               [] n = 4 /\ has(3) /\ Utf8SecondOk(c, b[i + 1]) /\ IsCont(b[i + 2])
                        /\ IsCont(b[i + 3]) ->
                      <<(c - 240) * 262144 + (b[i + 1] - 128) * 4096
                          + (b[i + 2] - 128) * 64 + (b[i + 3] - 128)>>
                          \o Utf8From(b, i + 4)

\* cp1252: the code points of the bytes 0x80..0x9F (ERR: undefined byte)
Cp1252High ==
    <<8364, ERR, 8218, 402, 8222, 8230, 8224, 8225, 710, 8240, 352, 8249, 338,
      ERR, 381, ERR, ERR, 8216, 8217, 8220, 8221, 8226, 8211, 8212, 732, 8482,
      353, 8250, 339, ERR, 382, 376>>

Cp1252Char(c) == IF c >= 128 /\ c <= 159 THEN Cp1252High[c - 127] ELSE c

AsciiChar(c) == IF c < 128 THEN c ELSE ERR

IsSurrogate(u) == u >= 55296 /\ u <= 57343

\* UTF-16: le = TRUE for little endian
RECURSIVE Utf16From(_, _, _)
Utf16From(b, i, le) ==
    IF i > Len(b) THEN <<>>
    ELSE IF i + 1 > Len(b) THEN <<ERR>>
    ELSE LET unit(j) == IF le THEN b[j] + 256 * b[j + 1] ELSE 256 * b[j] + b[j + 1]
             u == unit(i)
         IN  IF ~IsSurrogate(u) THEN <<u>> \o Utf16From(b, i + 2, le)
             ELSE IF u >= 56320 THEN <<ERR>> \o Utf16From(b, i + 2, le)
             ELSE IF i + 3 > Len(b) THEN <<ERR>>
             ELSE IF unit(i + 2) >= 56320 /\ unit(i + 2) <= 57343
                  THEN <<65536 + (u - 55296) * 1024 + (unit(i + 2) - 56320)>>
                           \o Utf16From(b, i + 4, le)
                  ELSE <<ERR>> \o Utf16From(b, i + 2, le)

RECURSIVE Utf32From(_, _, _)
Utf32From(b, i, le) ==
    IF i > Len(b) THEN <<>>
    ELSE IF i + 3 > Len(b) THEN <<ERR>>
    ELSE LET top == IF le THEN b[i + 3] ELSE b[i]
             u == IF le THEN b[i] + 256 * b[i + 1] + 65536 * b[i + 2]
                        ELSE 65536 * b[i + 1] + 256 * b[i + 2] + b[i + 3]
         IN  (IF top # 0 \/ u > 1114111 \/ IsSurrogate(u) THEN <<ERR>> ELSE <<u>>)
                 \o Utf32From(b, i + 4, le)

\* the codecs (codecs.lookup(...).name) whose decoding is modelled
TextCodecs == {"ascii", "utf-8", "cp1252", "iso8859-1", "utf-16-le", "utf-16-be",
               "utf-32-le", "utf-32-be"}

\* the decoder of a codec: code points, ERR at the invalid positions
RawDecode(codec, b) ==
    CASE codec = "ascii"     -> [i \in 1..Len(b) |-> AsciiChar(b[i])]
      [] codec = "cp1252"    -> [i \in 1..Len(b) |-> Cp1252Char(b[i])]
      [] codec = "iso8859-1" -> b
      [] codec = "utf-8"     -> Utf8From(b, 1)
      [] codec = "utf-16-le" -> Utf16From(b, 1, TRUE)
      [] codec = "utf-16-be" -> Utf16From(b, 1, FALSE)
      [] codec = "utf-32-le" -> Utf32From(b, 1, TRUE)
      [] codec = "utf-32-be" -> Utf32From(b, 1, FALSE)

\* bytes.decode(codec) raises UnicodeDecodeError
DecodeFails(codec, b) == ERR \in Range(RawDecode(codec, b))

\* bytes.decode(codec, 'replace')
DecodeReplace(codec, b) ==
    CHOOSE out \in
        {[i \in 1..Len(r) |-> IF r[i] = ERR THEN REPLACEMENT ELSE r[i]] :
            r \in {RawDecode(codec, b)}} : TRUE

----------------------------------------------------------------------------
(* w3lib.encoding, as imported by http.py                                  *)

\* encodings.normalize_encoding(label).lower(), then encodings.aliases
c18n_encoding(label) ==
    CASE label \in {"utf-8", "UTF8", "utf8"} -> "utf_8"
      [] label \in {"latin1", "iso-8859-1"}  -> "latin_1"
      [] label = "ascii"      -> "ascii"
      [] label = "cp1252"     -> "cp1252"
      [] label = "utf-16"     -> "utf_16"
      [] label = "utf-16-le"  -> "utf_16_le"
      [] label = "utf-16-be"  -> "utf_16_be"
      [] label = "utf-32"     -> "utf_32"
      [] label = "utf-32-le"  -> "utf_32_le"
      [] label = "utf-32-be"  -> "utf_32_be"
      [] label = "gb2312"     -> "gb2312"
      [] label = "gbk"        -> "gbk"
      [] label = "gb18030"    -> "gb18030"
      [] label = "undefined"  -> "undefined"
      [] label = "UNKNOWN"    -> "unknown"
      [] label = "None"       -> "none"

\* the charset labels of the model
Labels == {"utf-8", "UTF8", "utf8", "latin1", "iso-8859-1", "ascii", "cp1252",
           "utf-16", "utf-16-le", "utf-16-be", "utf-32", "utf-32-le", "utf-32-be",
           "gb2312", "gbk", "gb18030", "undefined", "UNKNOWN", "None"}

\* w3lib.encoding.DEFAULT_ENCODING_TRANSLATION
DEFAULT_ENCODING_TRANSLATION ==
    [k \in {"ascii", "latin_1", "gb2312", "gbk"} |->
        CASE k \in {"ascii", "latin_1"} -> "cp1252"
          [] k \in {"gb2312", "gbk"}    -> "gb18030"]

\* codecs.lookup(name).name, None for LookupError
codecs_lookup_name(name) ==
    CASE name = "utf_8"     -> "utf-8"
      [] name = "latin_1"   -> "iso8859-1"
      [] name = "ascii"     -> "ascii"
      [] name = "cp1252"    -> "cp1252"
      [] name = "utf_16"    -> "utf-16"
      [] name = "utf_16_le" -> "utf-16-le"
      [] name = "utf_16_be" -> "utf-16-be"
      [] name = "utf_32"    -> "utf-32"
      [] name = "utf_32_le" -> "utf-32-le"
      [] name = "utf_32_be" -> "utf-32-be"
      [] name = "gb18030"   -> "gb18030"
      [] name = "undefined" -> "undefined"
      [] OTHER -> None

\* w3lib.encoding.resolve_encoding: the alias table; None for an unknown label
resolve_encoding(label) ==
    (CHOOSE out \in {codecs_lookup_name(IF c \in DOMAIN DEFAULT_ENCODING_TRANSLATION
                                       THEN DEFAULT_ENCODING_TRANSLATION[c] ELSE c) :
                     c \in {c18n_encoding(label)}} : TRUE)

\* A Content-Type value: its media type and the label after "charset=", None
\* when it has no charset parameter.  The empty string is EmptyCT.
ContentType(mime, charset) == [mime |-> mime, charset |-> charset]

EmptyCT == ContentType("", None)

\* w3lib.encoding.http_content_type_encoding: charset=([\w-]+), resolved
http_content_type_encoding(content_type) ==
    IF content_type = EmptyCT \/ content_type.charset = None THEN None
    ELSE resolve_encoding(content_type.charset)

\* w3lib.encoding._BOM_TABLE, in its order
BOM_TABLE ==
    << <<(<<0, 0, 254, 255>>), "utf-32-be">>,
       <<(<<255, 254, 0, 0>>), "utf-32-le">>,
       <<(<<254, 255>>), "utf-16-be">>,
       <<(<<255, 254>>), "utf-16-le">>,
       <<(<<239, 187, 191>>), "utf-8">> >>

\* w3lib.encoding.read_bom: <<encoding, bom>>, <<None, <<>>>> without a BOM
read_bom(data) ==
    LET hits == {k \in 1..Len(BOM_TABLE) : startswith(data, BOM_TABLE[k][1])}
    IN  IF hits = {} THEN <<None, <<>> >>
        ELSE LET k == CHOOSE x \in hits : \A y \in hits : x <= y
             IN  <<BOM_TABLE[k][2], BOM_TABLE[k][1]>>

\* the bytes of the ASCII labels a body can declare
LabelBytes(label) ==
    CASE label = "utf-8"     -> <<117, 116, 102, 45, 56>>
      [] label = "latin1"    -> <<108, 97, 116, 105, 110, 49>>
      [] label = "UNKNOWN"   -> <<85, 78, 75, 78, 79, 87, 78>>
      [] label = "undefined" -> <<117, 110, 100, 101, 102, 105, 110, 101, 100>>

BodyLabels == {"utf-8", "latin1", "UNKNOWN", "undefined"}

\* b"<meta charset="
META_CHARSET == <<60, 109, 101, 116, 97, 32, 99, 104, 97, 114, 115, 101, 116, 61>>

\* b"<body"
BODY_TAG == <<60, 98, 111, 100, 121>>

\* a byte of [\w-]
IsWordByte(c) ==
    \/ c >= 48 /\ c <= 57
    \/ c >= 65 /\ c <= 90
    \/ c >= 97 /\ c <= 122
    \/ c = 95 \/ c = 45

\* the longest run of [\w-] bytes of b from position i
RECURSIVE WordRun(_, _)
WordRun(b, i) ==
    IF i > Len(b) \/ ~IsWordByte(b[i]) THEN <<>>
    ELSE <<b[i]>> \o WordRun(b, i + 1)

\* the leftmost match of w3lib.encoding._BODY_ENCODING_BYTES_RE in b from
\* position i, here "<meta charset=LABEL" or "<body" (which ends the search
\* with no charset): the bytes of LABEL, <<>> without a charset
RECURSIVE body_scan(_, _)
body_scan(b, i) ==
    IF i > Len(b) THEN <<>>
    ELSE (CHOOSE out \in {IF startswith(m[1], META_CHARSET) /\ m[2] # <<>> THEN m[2]
         ELSE IF startswith(m[1], BODY_TAG) THEN <<>>
         ELSE body_scan(b, i + 1) :
          m \in {<<SubSeqFrom(b, i), WordRun(b, i + Len(META_CHARSET))>>}} : TRUE)

\* the label a body declares, unresolved; None without a declaration
body_declared_label(b) ==
    (CHOOSE out \in {IF run = <<>> THEN None
         ELSE IF \E l \in BodyLabels : LabelBytes(l) = run
              THEN CHOOSE l \in BodyLabels : LabelBytes(l) = run
              ELSE "UNKNOWN" : run \in {body_scan(b, 1)}} : TRUE)

\* w3lib.encoding.html_body_declared_encoding: the declaration found in the
\* first 4096 bytes, resolved
html_body_declared_encoding(html_body_str) ==
    CHOOSE out \in
        {IF l = None THEN None ELSE resolve_encoding(l) :
            l \in {body_declared_label(html_body_str)}} : TRUE

\* the codec bytes.decode(enc, ...) looks up
PyCodec(enc) == codecs_lookup_name(c18n_encoding(enc))

\* w3lib.encoding.to_unicode: data_str.decode(encoding, 'replace').  The
\* 'undefined' codec raises UnicodeError for every input.
to_unicode(data_str, encoding) ==
    (CHOOSE out \in {IF codec = "undefined"
                        THEN [raised |-> TRUE, text |-> <<>>]
                        ELSE [raised |-> FALSE, text |-> DecodeReplace(codec, data_str)] :
                        codec \in {PyCodec(encoding)}} : TRUE)

\* the result of html_to_unicode: (enc, text), or an exception
Decoded(enc, data_str) ==
    CHOOSE out \in
        {[enc |-> enc, text |-> u.text, raised |-> u.raised] :
            u \in {to_unicode(data_str, enc)}} : TRUE

\* w3lib.encoding.html_to_unicode(content_type_header, html_body_str,
\*     default_encoding, auto_detect_fun); auto is the value auto_detect_fun
\* returns for the body, None when no auto_detect_fun is given
html_to_unicode(content_type_header, html_body_str, default_encoding, auto) ==
    (CHOOSE out \in {LET enc == eb[1]
        bom_enc == eb[2][1]
        bom == eb[2][2]
        stripped == SubSeqFrom(html_body_str, Len(bom) + 1)
    IN  IF enc # None
        THEN IF enc = bom_enc THEN Decoded(enc, stripped)
             ELSE IF enc \in {"utf-16", "utf-32"}
                  THEN IF bom_enc # None /\ bom_enc \in {enc \o "-le", enc \o "-be"}
                       THEN Decoded(bom_enc, stripped)
                       ELSE Decoded(enc \o "-be", html_body_str)
                  ELSE Decoded(enc, html_body_str)
        ELSE IF bom_enc # None THEN Decoded(bom_enc, stripped)
        ELSE (CHOOSE out \in {IF declared # None THEN Decoded(declared, html_body_str)
                      ELSE IF auto # None THEN Decoded(auto, html_body_str)
                      ELSE Decoded(default_encoding, html_body_str) :
                      declared \in {html_body_declared_encoding(html_body_str)}} : TRUE) :
        eb \in {<<http_content_type_encoding(content_type_header),
                  read_bom(html_body_str)>>}} : TRUE)

----------------------------------------------------------------------------
(* Header container (multidict.CIMultiDict): a sequence of <<name, value>>  *)

lower(name) ==
    CASE name \in {"Content-Type", "Content-type", "content-type"} -> "content-type"
      [] name \in {"X-Other", "x-other"} -> "x-other"

\* get comparing the keys as written
headers_get_exact(h, key, default) ==
    LET hits == {k \in 1..Len(h) : h[k][1] = key}
    IN  IF hits = {} THEN default
        ELSE h[CHOOSE x \in hits : \A y \in hits : x <= y][2]

\* CIMultiDict.get(key, default): the first value of a key equal ignoring case
headers_get(h, key, default) ==
    LET hits == {k \in 1..Len(h) : lower(h[k][1]) = lower(key)}
    IN  IF hits = {} THEN default
        ELSE h[CHOOSE x \in hits : \A y \in hits : x <= y][2]

\* declared_encoding returning the charset parameter as written
declared_encoding_unresolved(h) == headers_get(h, "Content-Type", EmptyCT).charset

\* HttpResponseHeaders.declared_encoding
declared_encoding(h) ==
    http_content_type_encoding(headers_get(h, "Content-Type", EmptyCT))

\* HttpResponseBody.declared_encoding
body_declared_encoding_of(b) == html_body_declared_encoding(b)

----------------------------------------------------------------------------
(* HttpResponse.  r = [encoding, headers, body] are the attrs fields; st is *)
(* the mutable rest of the instance: _cached_text and the caches that       *)
(* memoizemethod_noargs keeps for it.  An Optional is <<>> or <<value>>.    *)
(* Every property returns [val, raised, st]: the value, whether it raised,  *)
(* and the instance afterwards.                                             *)

DEFAULT_ENCODING == "ascii"

\* an instance after construction: _cached_text, the caches of the memoized
\* methods, and passes, the number of html_to_unicode calls made on the
\* instance that returned a text (each is followed by the assignment of
\* that text to _cached_text)
FreshInst == [cached_text |-> <<>>, m_headers |-> <<>>, m_body |-> <<>>,
              m_inferred |-> <<>>, m_json |-> <<>>, passes |-> 0]

\* Python truthiness of an Optional[str]
Truthy(v) == v # None /\ v # ""

\* _auto_detect_fun returning the candidate itself, not resolve_encoding(enc)
auto_detect_fun_unresolved(b) ==
    IF ~DecodeFails(PyCodec(DEFAULT_ENCODING), b) THEN DEFAULT_ENCODING
    ELSE IF ~DecodeFails(PyCodec("utf-8"), b) THEN "utf-8"
    ELSE IF ~DecodeFails(PyCodec("cp1252"), b) THEN "cp1252"
    ELSE None

\* _auto_detect_fun trying cp1252 before utf-8
auto_detect_fun_swapped(b) ==
    IF ~DecodeFails(PyCodec(DEFAULT_ENCODING), b) THEN resolve_encoding(DEFAULT_ENCODING)
    ELSE IF ~DecodeFails(PyCodec("cp1252"), b) THEN resolve_encoding("cp1252")
    ELSE IF ~DecodeFails(PyCodec("utf-8"), b) THEN resolve_encoding("utf-8")
    ELSE None

\* HttpResponse._auto_detect_fun
auto_detect_fun(b) ==
    IF ~DecodeFails(PyCodec(DEFAULT_ENCODING), b) THEN resolve_encoding(DEFAULT_ENCODING)
    ELSE IF ~DecodeFails(PyCodec("utf-8"), b) THEN resolve_encoding("utf-8")
    ELSE IF ~DecodeFails(PyCodec("cp1252"), b) THEN resolve_encoding("cp1252")
    ELSE None

\* the html_to_unicode call of HttpResponse._body_inferred_encoding
inferred_call(r) ==
    html_to_unicode(headers_get(r.headers, "Content-Type", EmptyCT), r.body,
                    DEFAULT_ENCODING, auto_detect_fun(r.body))

\* the html_to_unicode call of HttpResponse.text
text_call(r, encoding) ==
    html_to_unicode(ContentType("", encoding), r.body, "utf8", None)

\* web_poet.utils.memoizemethod_noargs: the first call on an instance runs
\* the method and keeps its result in the cache slot of that instance, every
\* later call returns the kept result.  m is [val, st]: what the undecorated
\* method returns when run on st and the instance after it.
memoizemethod_noargs(st, slot, m) ==
    IF st[slot] # <<>> THEN [val |-> st[slot][1], st |-> st]
    ELSE (CHOOSE out \in {[val |-> x.val, st |-> [x.st EXCEPT ![slot] = <<x.val>>]] :
                             x \in {m}} : TRUE)

\* HttpResponse._headers_declared_encoding
headers_declared_encoding(r, st) ==
    memoizemethod_noargs(st, "m_headers",
        [val |-> declared_encoding(r.headers), st |-> st])

\* HttpResponse._body_declared_encoding
body_declared_encoding(r, st) ==
    memoizemethod_noargs(st, "m_body",
        [val |-> body_declared_encoding_of(r.body), st |-> st])

\* the body of HttpResponse._body_inferred_encoding: the inferred encoding,
\* and the decoded text written to self._cached_text
body_inferred_encoding_method(r, s) ==
    CHOOSE out \in
        {[val |-> d.enc, st |-> [s EXCEPT !.cached_text = <<d.text>>,
                                          !.passes = @ + 1]] :
            d \in {inferred_call(r)}} : TRUE

\* HttpResponse._body_inferred_encoding
body_inferred_encoding(r, st) ==
    memoizemethod_noargs(st, "m_inferred", body_inferred_encoding_method(r, st))

\* encoding asking the body declaration before the headers
encoding_body_first(r, st) ==
    IF Truthy(r.encoding) THEN [val |-> r.encoding, st |-> st]
    ELSE (CHOOSE out \in {IF Truthy(b.val) THEN b
         ELSE (CHOOSE out \in {IF Truthy(h.val) THEN h
              ELSE body_inferred_encoding(r, h.st) :
              h \in {headers_declared_encoding(r, b.st)}} : TRUE) :
         b \in {body_declared_encoding(r, st)}} : TRUE)

\* HttpResponse.encoding
encoding(r, st) ==
    IF Truthy(r.encoding) THEN [val |-> r.encoding, st |-> st]
    ELSE (CHOOSE out \in {IF Truthy(h.val) THEN h
         ELSE (CHOOSE out \in {IF Truthy(b.val) THEN b
              ELSE body_inferred_encoding(r, b.st) :
              b \in {body_declared_encoding(r, h.st)}} : TRUE) :
         h \in {headers_declared_encoding(r, st)}} : TRUE)

\* text decoding on every access, without the check of self._cached_text
cached_text_ignored(st) == TRUE

\* `self._cached_text is None` in HttpResponse.text
cached_text_is_None(st) == st.cached_text = <<>>

\* the rest of HttpResponse.text once self.encoding has returned e
text_after(r, e) ==
    IF cached_text_is_None(e.st)
    THEN (CHOOSE out \in {IF d.raised THEN [val |-> <<>>, raised |-> TRUE, st |-> e.st]
              ELSE [val |-> d.text, raised |-> FALSE,
                    st |-> [e.st EXCEPT !.cached_text = <<d.text>>,
                                        !.passes = @ + 1]] :
              d \in {text_call(r, e.val)}} : TRUE)
    ELSE [val |-> e.st.cached_text[1], raised |-> FALSE, st |-> e.st]

\* text reading self._cached_text before self.encoding, which the comment in
\* text warns against
text_cache_first(r, st) ==
    IF st.cached_text = <<>>
    THEN (CHOOSE out \in {(CHOOSE out2 \in {
              IF d.raised THEN [val |-> <<>>, raised |-> TRUE, st |-> e.st]
              ELSE [val |-> d.text, raised |-> FALSE,
                    st |-> [e.st EXCEPT !.cached_text = <<d.text>>,
                                        !.passes = @ + 1]] :
              d \in {text_call(r, e.val)}} : TRUE) :
         e \in {encoding(r, st)}} : TRUE)
    ELSE [val |-> st.cached_text[1], raised |-> FALSE, st |-> st]

\* HttpResponse.text
text(r, st) == (CHOOSE out \in {text_after(r, e) : e \in {encoding(r, st)}} : TRUE)

----------------------------------------------------------------------------
(* The responses of the model                                              *)

\* longest run of free bytes after the prefix of a body
MaxTail == 2

\* bytes of the tails: 'A'; 0x81 (undefined in cp1252, a UTF-8 continuation);
\* 0x9C (cp1252 U+0153, latin-1 U+009C, a UTF-8 continuation); 0xC2 (a UTF-8
\* lead byte)
TailBytes == {65, 129, 156, 194}

RECURSIVE SeqsUpTo(_, _)
SeqsUpTo(S, n) ==
    IF n = 0 THEN {<<>>}
    ELSE LET shorter == SeqsUpTo(S, n - 1)
         IN  shorter \cup {Append(t, x) : t \in {u \in shorter : Len(u) = n - 1}, x \in S}

\* b"<meta charset=LABEL>"
Meta(label) == META_CHARSET \o LabelBytes(label) \o <<62>>

\* what a body starts with: nothing, a byte-order-mark, a charset declaration
Prefixes ==
    {<<>>} \cup {BOM_TABLE[k][1] : k \in 1..Len(BOM_TABLE)}
           \cup {Meta(l) : l \in {"utf-8", "latin1", "UNKNOWN"}}

Bodies == {p \o t : p \in Prefixes, t \in SeqsUpTo(TailBytes, MaxTail)}

\* the encoding= argument of HttpResponse(...)
ExplicitEncodings == {None, "UTF8", "latin1", "UNKNOWN", "utf-16-le", "undefined"}

\* the headers= argument of HttpResponse(...)
HeaderValues ==
    {<<>>}
      \cup {<< <<"Content-type", ContentType("text/html", c)>> >> :
               c \in {"utf-8", "iso-8859-1", "UNKNOWN"}}
      \cup {<< <<"X-Other", ContentType("gzip", None)>>,
               <<"content-type", ContentType("text/html", None)>>,
               <<"Content-Type", ContentType("text/html", "utf-8")>> >>}

\* two responses constructed from the same arguments
Insts == {1, 2}

\* the attrs fields of the responses
Resp == [encoding |-> enc_arg, headers |-> headers, body |-> body]

NoGot == [encs |-> {}, texts |-> {}, raised |-> FALSE, first |-> None]

\* the variables a specification does not use keep these values
IdleFromBytes == fb_arg = None /\ fb_encoding = None /\ fb_res = None

IdleLookup == hd_res = None

IdleJson == json_got = None

IdleObject == obj = None /\ obj_init = None /\ ctor_exc = None

IdleBatch == tasks = None /\ gather = None /\ batch_ret = None

IdleFields == classes = None /\ fld = None /\ page_cache = None /\ proc_calls = None

IdleThreads == pc = <<>> /\ loc = <<>> /\ seen = <<>>

IdleUrl == url_a = None /\ url_b = None /\ b_is_str = FALSE /\ eq_res = <<>>

\* the reader threads, the Url operands, the other operations: not part of
\* this specification
Idle ==
    /\ IdleThreads /\ IdleUrl
    /\ IdleFromBytes /\ IdleLookup /\ IdleJson /\ IdleObject /\ IdleBatch /\ IdleFields

Init ==
    /\ enc_arg \in ExplicitEncodings
    /\ headers \in HeaderValues
    /\ body \in Bodies
    /\ insts = [i \in Insts |-> FreshInst]
    /\ got = [i \in Insts |-> NoGot]
    /\ Idle

\* response.encoding
AccessEncoding(i) ==
    \E res \in {encoding(Resp, insts[i])} :
        /\ insts' = [insts EXCEPT ![i] = res.st]
        /\ got' = [got EXCEPT ![i].encs = @ \cup {res.val},
                              ![i].first = IF @ = None THEN "encoding" ELSE @]
        /\ UNCHANGED <<enc_arg, headers, body, pc, loc, seen,
                       url_a, url_b, b_is_str, eq_res,
                   fbVars, hdVars, jsonVars, objVars, batchVars, fieldVars>>

\* response.text
AccessText(i) ==
    \E res \in {text(Resp, insts[i])} :
        /\ insts' = [insts EXCEPT ![i] = res.st]
        /\ got' = [got EXCEPT ![i].texts = IF res.raised THEN @ ELSE @ \cup {res.val},
                              ![i].raised = @ \/ res.raised,
                              ![i].first = IF @ = None THEN "text" ELSE @]
        /\ UNCHANGED <<enc_arg, headers, body, pc, loc, seen,
                       url_a, url_b, b_is_str, eq_res,
                   fbVars, hdVars, jsonVars, objVars, batchVars, fieldVars>>

Next ==
    \/ \E i \in Insts : AccessEncoding(i)
    \/ \E i \in Insts : AccessText(i)

Spec == Init /\ [][Next]_vars

----------------------------------------------------------------------------
(* What the constructor arguments declare                                  *)

\* the charset parameter of the Content-Type header, as written
HeaderCharset == headers_get(headers, "Content-Type", EmptyCT).charset

HeaderLabel == declared_encoding(headers)

BodyLabel == body_declared_encoding_of(body)

InferredLabel == inferred_call(Resp).enc

\* a label the normalization table does not know
Unrecognized(l) == l # None /\ resolve_encoding(l) = None

\* no explicit, header-declared or body-declared encoding
NoDeclared == ~Truthy(enc_arg) /\ HeaderLabel = None /\ BodyLabel = None

\* the encoding and the byte-order-mark the body starts with
BodyBom == read_bom(body)

\* the body decodes under none of ascii, utf-8, cp1252
AllCandidatesFail ==
    /\ DecodeFails("ascii", body)
    /\ DecodeFails("utf-8", body)
    /\ DecodeFails("cp1252", body)

\* the first of ascii, utf-8, cp1252 under which the body decodes
FirstCandidate ==
    IF ~DecodeFails("ascii", body) THEN "ascii"
    ELSE IF ~DecodeFails("utf-8", body) THEN "utf-8"
    ELSE IF ~DecodeFails("cp1252", body) THEN "cp1252"
    ELSE None

\* a lowercase name that the alias table maps to itself
Normalized(l) == resolve_encoding(l) = l /\ l \notin {"UTF8", "UNKNOWN", "None"}

\* the byte-order-mark of a codec, <<>> when it has none
BomBytes(codec) ==
    CASE codec = "utf-8"     -> <<239, 187, 191>>
      [] codec = "utf-16-le" -> <<255, 254>>
      [] codec = "utf-16-be" -> <<254, 255>>
      [] codec = "utf-32-le" -> <<255, 254, 0, 0>>
      [] codec = "utf-32-be" -> <<0, 0, 254, 255>>
      [] OTHER -> <<>>

\* the body starts with the byte-order-mark of the codec
StartsWithBomOf(codec) == BomBytes(codec) # <<>> /\ startswith(body, BomBytes(codec))

----------------------------------------------------------------------------
(* C1: encoding is the first label, in the order explicit, header, body      *)
(* declaration, body inference, that a source yields; a later source is      *)
(* never used when an earlier one yields a label.                            *)
C1_Precedence ==
    \A i \in Insts : \A e \in got[i].encs :
        /\ Truthy(enc_arg) => e = enc_arg
        /\ (~Truthy(enc_arg) /\ Truthy(HeaderLabel)) => e = HeaderLabel
        /\ (~Truthy(enc_arg) /\ ~Truthy(HeaderLabel) /\ Truthy(BodyLabel)) => e = BodyLabel
        /\ NoDeclared => e = InferredLabel

\* the header (iso-8859-1) has won over a conflicting body declaration (utf-8)
C1_Witness ==
    /\ enc_arg = None /\ HeaderLabel = "cp1252" /\ BodyLabel = "utf-8"
    /\ got[1].encs = {"cp1252"}

(* C2: with an explicit encoding, encoding returns that label unchanged and  *)
(* text is the body decoded under that same label (the codec Python looks up *)
(* for it), with or without the byte-order-mark of that codec removed.       *)
C2_ExplicitVerbatim ==
    (Truthy(enc_arg) /\ PyCodec(enc_arg) \in TextCodecs) =>
        \A i \in Insts :
            /\ \A e \in got[i].encs : e = enc_arg
            /\ ~got[i].raised
            /\ \A t \in got[i].texts :
                  \/ t = DecodeReplace(PyCodec(enc_arg), body)
                  \/ /\ StartsWithBomOf(PyCodec(enc_arg))
                     /\ t = DecodeReplace(PyCodec(enc_arg),
                                SubSeqFrom(body, Len(BomBytes(PyCodec(enc_arg))) + 1))

(* C3: an unrecognized header or body label counts as no label: encoding     *)
(* never returns one, an unrecognized header label hands over to the body    *)
(* declaration, and an absent or unrecognized body declaration to the        *)
(* inferred encoding.                                                        *)
C3_UnrecognizedFallsThrough ==
    ~Truthy(enc_arg) =>
        \A i \in Insts : \A e \in got[i].encs :
            /\ ~Unrecognized(e)
            /\ Unrecognized(HeaderCharset) =>
                  IF body_declared_label(body) = None
                         \/ Unrecognized(body_declared_label(body))
                  THEN e = InferredLabel
                  ELSE e = resolve_encoding(body_declared_label(body))

\* header and body both declare UNKNOWN, and encoding has been read
C3_Witness ==
    /\ enc_arg = None
    /\ Unrecognized(HeaderCharset)
    /\ Unrecognized(body_declared_label(body))
    /\ got[1].encs # {}

(* C4: every access to encoding returns the same label and every access to   *)
(* text the same string, on one response and on an identically constructed   *)
(* one accessed in the opposite order.                                       *)
C4_OrderIndependent ==
    \A i, j \in Insts :
        /\ Cardinality(got[i].encs \cup got[j].encs) <= 1
        /\ Cardinality(got[i].texts \cup got[j].texts) <= 1
        /\ got[i].raised => got[j].texts = {}

\* response 1 read encoding then text, response 2 text then encoding, and the
\* body-inferred step cached the text of a body no candidate decodes
C4_Witness ==
    /\ got[1].first = "encoding" /\ got[2].first = "text"
    /\ \A i \in Insts : got[i].encs = {"ascii"} /\ got[i].texts # {}
    /\ AllCandidatesFail

(* C5: accessing text or encoding never raises.                              *)
C5_NeverRaises == \A i \in Insts : ~got[i].raised

(* C6 as claimed: every label encoding returns is a normalized, lowercase    *)
(* name that has passed through the alias table.                             *)
C6_AlwaysNormalized ==
    \A i \in Insts : \A e \in got[i].encs : Normalized(e)

(* C6 as amended: an explicit label is returned as given; any other label is *)
(* a normalized lowercase name, except the default 'ascii', returned as it   *)
(* is when nothing is declared, the body has no byte-order-mark and decodes  *)
(* under none of the candidates.                                             *)
C6_NormalizedUnlessExplicit ==
    \A i \in Insts : \A e \in got[i].encs :
        IF Truthy(enc_arg) THEN e = enc_arg
        ELSE \/ Normalized(e)
             \/ /\ e = DEFAULT_ENCODING
                /\ NoDeclared /\ BodyBom[1] = None /\ AllCandidatesFail

\* the header label iso-8859-1 came back as cp1252
C6_Witness ==
    /\ enc_arg = None /\ HeaderCharset = "iso-8859-1"
    /\ got[1].encs = {"cp1252"}

(* C7 as claimed: with nothing declared, the inferred encoding is the first  *)
(* of ascii, utf-8, cp1252 under which the body decodes, 'ascii' when it     *)
(* decodes under none, for every body, a byte-order-mark or not.             *)
C7_FirstCandidate ==
    NoDeclared =>
        \A i \in Insts : \A e \in got[i].encs :
            e = (IF FirstCandidate = None THEN DEFAULT_ENCODING ELSE FirstCandidate)

(* C7 as amended: with nothing declared, a body that starts with a           *)
(* byte-order-mark gets the encoding of the mark; any other body gets the    *)
(* alias-normalized name of the first of ascii, utf-8, cp1252 under which it *)
(* decodes (cp1252 for ascii), and 'ascii' when it decodes under none.       *)
C7_BomThenResolvedCandidate ==
    NoDeclared =>
        \A i \in Insts : \A e \in got[i].encs :
            IF BodyBom[1] # None THEN e = BodyBom[1]
            ELSE IF FirstCandidate = None THEN e = DEFAULT_ENCODING
            ELSE e = resolve_encoding(FirstCandidate)

\* a two-byte UTF-8 body: ascii fails, utf-8 is chosen
C7_Witness ==
    /\ NoDeclared /\ body = <<194, 156>>
    /\ got[1].encs = {"utf-8"}

(* C8: when the body starts with the byte-order-mark of the resolved         *)
(* encoding, text is the rest of the body decoded under it, without the mark.*)
C8_BomStripped ==
    \A i \in Insts : \A e \in got[i].encs : \A t \in got[i].texts :
        (~Unrecognized(e) /\ StartsWithBomOf(resolve_encoding(e))) =>
            t = DecodeReplace(resolve_encoding(e),
                    SubSeqFrom(body, Len(BomBytes(resolve_encoding(e))) + 1))

----------------------------------------------------------------------------
(* Readers sharing one response.  Each reader makes one access, text or     *)
(* encoding, to response 1; a step is one read or one write of the state    *)
(* the readers share: self._cached_text and the caches of the memoized      *)
(* methods.                                                                 *)

\* number of readers
NReaders == 2

Readers == 1..NReaders

\* bodies that are ascii, that decode under no candidate, that declare utf-8
ThreadBodies == {<<65>>, <<129, 156>>, Meta("utf-8") \o <<156>>}

ThreadEncodings == {None, "undefined"}

ThreadHeaders ==
    {<<>>, << <<"Content-type", ContentType("text/html", "utf-8")>> >>}

\* the locals of a reader: the property it accesses, the memoized method it
\* is in, the value and the text that method computed, the value of
\* self.encoding, the memoized methods it has run
NoLoc == [op |-> None, slot |-> None, val |-> None, txt |-> <<>>,
          enc |-> None, ran |-> {}]

\* what a reader got: the encoding, the text, or an exception
NoSeen == [enc |-> None, text |-> <<>>, raised |-> FALSE]

InitThreads ==
    /\ enc_arg \in ThreadEncodings
    /\ headers \in ThreadHeaders
    /\ body \in ThreadBodies
    /\ insts = [i \in Insts |-> FreshInst]
    /\ got = [i \in Insts |-> NoGot]
    /\ pc = [t \in Readers |-> "start"]
    /\ loc = [t \in Readers |-> NoLoc]
    /\ seen = [t \in Readers |-> NoSeen]
    /\ IdleUrl
    /\ IdleFromBytes /\ IdleLookup /\ IdleJson /\ IdleObject /\ IdleBatch /\ IdleFields

\* the methods behind memoizemethod_noargs, in the order encoding calls them
MemoSlots == <<"m_headers", "m_body", "m_inferred">>

\* what the undecorated method computes: its return value and, for
\* _body_inferred_encoding, the text it assigns to self._cached_text
MethodRun(slot) ==
    CASE slot = "m_headers"  -> [val |-> declared_encoding(headers), txt |-> <<>>]
      [] slot = "m_body"     -> [val |-> body_declared_encoding_of(body), txt |-> <<>>]
      [] slot = "m_inferred" ->
            (CHOOSE out \in {[val |-> d.enc, txt |-> <<d.text>>] :
                                d \in {inferred_call(Resp)}} : TRUE)

\* a reader starts response.text or response.encoding: `self._encoding or`
Access(t, op) ==
    /\ pc[t] = "start"
    /\ IF Truthy(enc_arg)
       THEN /\ loc' = [loc EXCEPT ![t].op = op, ![t].enc = enc_arg]
            /\ pc' = [pc EXCEPT ![t] = "enc_return"]
       ELSE /\ loc' = [loc EXCEPT ![t].op = op, ![t].slot = 1]
            /\ pc' = [pc EXCEPT ![t] = "memo_lookup"]
    /\ UNCHANGED <<enc_arg, headers, body, insts, got, seen,
                   url_a, url_b, b_is_str, eq_res,
                   fbVars, hdVars, jsonVars, objVars, batchVars, fieldVars>>

\* memoizemethod_noargs: `if self not in cache`, and on a miss the body of
\* the method up to its first write
MemoLookup(t) ==
    /\ pc[t] = "memo_lookup"
    /\ IF insts[1][MemoSlots[loc[t].slot]] # <<>>
       THEN /\ pc' = [pc EXCEPT ![t] = "memo_return"]
            /\ loc' = loc
       ELSE \E m \in {MethodRun(MemoSlots[loc[t].slot])} :
            /\ loc' = [loc EXCEPT ![t].val = m.val, ![t].txt = m.txt,
                                  ![t].ran = @ \cup {MemoSlots[loc[t].slot]}]
            /\ pc' = [pc EXCEPT ![t] =
                        IF MemoSlots[loc[t].slot] = "m_inferred"
                        THEN "inferred_write" ELSE "memo_store"]
    /\ UNCHANGED <<enc_arg, headers, body, insts, got, seen,
                   url_a, url_b, b_is_str, eq_res,
                   fbVars, hdVars, jsonVars, objVars, batchVars, fieldVars>>

\* _body_inferred_encoding: `self._cached_text = text`
InferredWriteText(t) ==
    /\ pc[t] = "inferred_write"
    /\ insts' = [insts EXCEPT ![1].cached_text = loc[t].txt,
                              ![1].passes = @ + 1]
    /\ pc' = [pc EXCEPT ![t] = "memo_store"]
    /\ UNCHANGED <<enc_arg, headers, body, got, loc, seen,
                   url_a, url_b, b_is_str, eq_res,
                   fbVars, hdVars, jsonVars, objVars, batchVars, fieldVars>>

\* memoizemethod_noargs: `cache[self] = method(self)`
MemoStore(t) ==
    /\ pc[t] = "memo_store"
    /\ insts' = [insts EXCEPT ![1][MemoSlots[loc[t].slot]] = <<loc[t].val>>]
    /\ pc' = [pc EXCEPT ![t] = "memo_return"]
    /\ UNCHANGED <<enc_arg, headers, body, got, loc, seen,
                   url_a, url_b, b_is_str, eq_res,
                   fbVars, hdVars, jsonVars, objVars, batchVars, fieldVars>>

\* memoizemethod_noargs: `return cache[self]`, and the `or` of encoding that
\* takes the value or goes on to the next method
MemoReturn(t) ==
    /\ pc[t] = "memo_return"
    /\ \E v \in {insts[1][MemoSlots[loc[t].slot]][1]} :
          IF Truthy(v) \/ loc[t].slot = Len(MemoSlots)
          THEN /\ loc' = [loc EXCEPT ![t].enc = v]
               /\ pc' = [pc EXCEPT ![t] = "enc_return"]
          ELSE /\ loc' = [loc EXCEPT ![t].slot = @ + 1]
               /\ pc' = [pc EXCEPT ![t] = "memo_lookup"]
    /\ UNCHANGED <<enc_arg, headers, body, insts, got, seen,
                   url_a, url_b, b_is_str, eq_res,
                   fbVars, hdVars, jsonVars, objVars, batchVars, fieldVars>>

\* self.encoding returns: to the caller of response.encoding, or into text
EncodingReturn(t) ==
    /\ pc[t] = "enc_return"
    /\ IF loc[t].op = "encoding"
       THEN /\ seen' = [seen EXCEPT ![t].enc = loc[t].enc]
            /\ pc' = [pc EXCEPT ![t] = "done"]
       ELSE /\ seen' = seen
            /\ pc' = [pc EXCEPT ![t] = "text_check"]
    /\ UNCHANGED <<enc_arg, headers, body, insts, got, loc,
                   url_a, url_b, b_is_str, eq_res,
                   fbVars, hdVars, jsonVars, objVars, batchVars, fieldVars>>

\* text: `if self._cached_text is None`, and the html_to_unicode call
TextCheck(t) ==
    /\ pc[t] = "text_check"
    /\ IF cached_text_is_None(insts[1])
       THEN \E d \in {text_call(Resp, loc[t].enc)} :
            IF d.raised
            THEN /\ seen' = [seen EXCEPT ![t].raised = TRUE]
                 /\ loc' = loc
                 /\ pc' = [pc EXCEPT ![t] = "done"]
            ELSE /\ seen' = seen
                 /\ loc' = [loc EXCEPT ![t].txt = <<d.text>>]
                 /\ pc' = [pc EXCEPT ![t] = "text_write"]
       ELSE /\ pc' = [pc EXCEPT ![t] = "text_return"]
            /\ UNCHANGED <<seen, loc>>
    /\ UNCHANGED <<enc_arg, headers, body, insts, got,
                   url_a, url_b, b_is_str, eq_res,
                   fbVars, hdVars, jsonVars, objVars, batchVars, fieldVars>>

\* text: `self._cached_text = text`
TextWrite(t) ==
    /\ pc[t] = "text_write"
    /\ insts' = [insts EXCEPT ![1].cached_text = loc[t].txt,
                              ![1].passes = @ + 1]
    /\ pc' = [pc EXCEPT ![t] = "text_return"]
    /\ UNCHANGED <<enc_arg, headers, body, got, loc, seen,
                   url_a, url_b, b_is_str, eq_res,
                   fbVars, hdVars, jsonVars, objVars, batchVars, fieldVars>>

\* text: `return self._cached_text`
TextReturn(t) ==
    /\ pc[t] = "text_return"
    /\ seen' = [seen EXCEPT ![t].text = insts[1].cached_text]
    /\ pc' = [pc EXCEPT ![t] = "done"]
    /\ UNCHANGED <<enc_arg, headers, body, insts, got, loc,
                   url_a, url_b, b_is_str, eq_res,
                   fbVars, hdVars, jsonVars, objVars, batchVars, fieldVars>>

NextThreads ==
    \/ \E t \in Readers, op \in {"text", "encoding"} : Access(t, op)
    \/ \E t \in Readers : MemoLookup(t)
    \/ \E t \in Readers : InferredWriteText(t)
    \/ \E t \in Readers : MemoStore(t)
    \/ \E t \in Readers : MemoReturn(t)
    \/ \E t \in Readers : EncodingReturn(t)
    \/ \E t \in Readers : TextCheck(t)
    \/ \E t \in Readers : TextWrite(t)
    \/ \E t \in Readers : TextReturn(t)

SpecThreads == InitThreads /\ [][NextThreads]_vars

\* what one reader alone gets from a fresh response
SequentialEncoding == encoding(Resp, FreshInst).val

SequentialText == text(Resp, FreshInst)

(* C9: however the steps of concurrent first accesses to text and encoding  *)
(* of one response interleave, every reader gets the encoding and the text  *)
(* a single sequential reader gets, and the cached text never holds another *)
(* value.                                                                   *)
C9_ConcurrentFirstAccess ==
    \A ref \in {SequentialText} :
        /\ insts[1].cached_text # <<>> =>
              ~ref.raised /\ insts[1].cached_text = <<ref.val>>
        /\ \A t \in Readers :
              pc[t] = "done" =>
                 IF loc[t].op = "encoding"
                 THEN seen[t].enc = SequentialEncoding
                 ELSE /\ seen[t].raised = ref.raised
                      /\ ~ref.raised => seen[t].text = <<ref.val>>

\* a reader of text and a reader of encoding are done, and both ran
\* _body_inferred_encoding because neither found it in the cache
C9_Witness ==
    \E t, u \in Readers :
        /\ pc[t] = "done" /\ pc[u] = "done"
        /\ loc[t].op = "text" /\ loc[u].op = "encoding"
        /\ "m_inferred" \in loc[t].ran /\ "m_inferred" \in loc[u].ran
        /\ AllCandidatesFail

----------------------------------------------------------------------------
(* _Url: RequestUrl and ResponseUrl.  A Url holds a yarl.URL, here the      *)
(* parts of the URL as written.                                             *)

UrlSchemes == {"http", "https"}

UrlHosts == {"example.com", "other.org"}

\* the path as written: none, the root, a path without and with trailing "/"
UrlRawPaths == {"", "/", "/foo", "/foo/"}

UrlQueries == {"", "q=1"}

UrlFragments == {"", "frag"}

Urls ==
    [scheme : UrlSchemes, host : UrlHosts, raw_path : UrlRawPaths,
     query_string : UrlQueries, fragment : UrlFragments]

\* _Url.__str__: str(self._url), the URL as written
Url_str(u) ==
    u.scheme \o "://" \o u.host \o u.raw_path
        \o (IF u.query_string = "" THEN "" ELSE "?" \o u.query_string)
        \o (IF u.fragment = "" THEN "" ELSE "#" \o u.fragment)

\* _Url.__init__ on a str: yarl.URL(str(url), encoded=encoded) splits the
\* string into its parts
Url_init(s) == CHOOSE u \in Urls : Url_str(u) = s

\* _Url.path: yarl gives "/" for an absolute URL written without a path
Url_path(u) == IF u.raw_path = "" THEN "/" ELSE u.raw_path

\* _Url.__eq__(self, other), other a _Url or (is_str) a str
Url_eq(self, other, is_str) ==
    IF Url_path(self) = "/"
    THEN LET o == IF is_str THEN Url_init(other) ELSE other
         IN  IF Url_path(self) = Url_path(o) THEN TRUE
             ELSE Url_str(self) = Url_str(o)
    ELSE Url_str(self) = (IF is_str THEN other ELSE Url_str(other))

InitUrl ==
    /\ url_a \in Urls
    /\ b_is_str \in BOOLEAN
    /\ url_b \in IF b_is_str THEN {Url_str(u) : u \in Urls} ELSE Urls
    /\ eq_res = <<>>
    /\ enc_arg = None /\ headers = <<>> /\ body = <<>>
    /\ insts = [i \in Insts |-> FreshInst]
    /\ got = [i \in Insts |-> NoGot]
    /\ IdleThreads
    /\ IdleFromBytes /\ IdleLookup /\ IdleJson /\ IdleObject /\ IdleBatch /\ IdleFields

\* url_a == url_b
Compare ==
    /\ eq_res = <<>>
    /\ eq_res' = <<Url_eq(url_a, url_b, b_is_str)>>
    /\ UNCHANGED <<enc_arg, headers, body, insts, got, pc, loc, seen,
                   url_a, url_b, b_is_str,
                   fbVars, hdVars, jsonVars, objVars, batchVars, fieldVars>>

NextUrl == Compare

SpecUrl == InitUrl /\ [][NextUrl]_vars

\* the parts of the right operand
RightUrl == IF b_is_str THEN Url_init(url_b) ELSE url_b

\* the operands are the same but for the path, the root path in one and no
\* path in the other
RootVersusNoPath ==
    /\ url_a.scheme = RightUrl.scheme
    /\ url_a.host = RightUrl.host
    /\ url_a.query_string = RightUrl.query_string
    /\ url_a.fragment = RightUrl.fragment
    /\ {url_a.raw_path, RightUrl.raw_path} = {"", "/"}

(* C10: a Url equals a Url or a string exactly when their string forms      *)
(* match or they differ only in that one has the root path "/" and the      *)
(* other no path; a difference in scheme, host, query or fragment, or a     *)
(* trailing slash after a non-root path, makes them unequal.                *)
C10_Equality ==
    eq_res # <<>> =>
        (eq_res[1] <=> \/ Url_str(url_a) = Url_str(RightUrl)
                       \/ RootVersusNoPath)

----------------------------------------------------------------------------
(* HttpResponseHeaders.from_bytes_dict.  A Python value is a record of its  *)
(* type t and its content: v, the bytes of a bytes object or the code       *)
(* points of a str, and elems, the elements of a list or tuple.             *)

PyBytes(b) == [t |-> "bytes", v |-> b, elems |-> <<>>]

PyStr(s) == [t |-> "str", v |-> s, elems |-> <<>>]

PyNone == [t |-> "None", v |-> <<>>, elems |-> <<>>]

\* a value of another type, such as the integer 316
PyInt == [t |-> "int", v |-> <<>>, elems |-> <<>>]

PyList(elems) == [t |-> "list", v |-> <<>>, elems |-> elems]

PyTuple(elems) == [t |-> "tuple", v |-> <<>>, elems |-> elems]

\* ValueError and its subclasses (UnicodeDecodeError is a UnicodeError, which
\* is a ValueError)
IsValueError(exc) == exc \in {"ValueError", "UnicodeDecodeError"}

\* _norm that hands bytes on without decoding them
norm_undecoded(data, enc) ==
    IF data.t \in {"str", "None", "bytes"} THEN [exc |-> None, val |-> data]
    ELSE [exc |-> "ValueError", val |-> PyNone]

\* _norm that hands a value of any other type on
norm_lenient(data, enc) ==
    IF data.t = "bytes"
    THEN IF DecodeFails(PyCodec(enc), data.v)
         THEN [exc |-> "UnicodeDecodeError", val |-> PyNone]
         ELSE [exc |-> None, val |-> PyStr(RawDecode(PyCodec(enc), data.v))]
    ELSE [exc |-> None, val |-> data]

\* _norm inside from_bytes_dict: the value, or the exception raised
norm(data, enc) ==
    IF data.t = "str" \/ data.t = "None" THEN [exc |-> None, val |-> data]
    ELSE IF data.t = "bytes"
    THEN IF DecodeFails(PyCodec(enc), data.v)
         THEN [exc |-> "UnicodeDecodeError", val |-> PyNone]
         ELSE [exc |-> None, val |-> PyStr(RawDecode(PyCodec(enc), data.v))]
    ELSE [exc |-> "ValueError", val |-> PyNone]

\* the (header, v) pairs in the order the loop over arg.items() reaches them:
\* one per element of a list or tuple, one for any other value
RECURSIVE items_pairs(_, _)
items_pairs(arg, j) ==
    IF j > Len(arg) THEN <<>>
    ELSE (IF arg[j][2].t \in {"list", "tuple"}
          THEN [i \in 1..Len(arg[j][2].elems) |-> <<arg[j][1], arg[j][2].elems[i]>>]
          ELSE << <<arg[j][1], arg[j][2]>> >>) \o items_pairs(arg, j + 1)

\* converted.extend / converted.append over the pairs from the k-th on, up to
\* the first exception
RECURSIVE convert(_, _, _, _)
convert(pairs, k, enc, converted) ==
    IF k > Len(pairs) THEN [exc |-> None, headers |-> converted]
    ELSE LET h == norm(pairs[k][1], enc)
             v == norm(pairs[k][2], enc)
         IN  IF h.exc # None THEN [exc |-> h.exc, headers |-> <<>>]
             ELSE IF v.exc # None THEN [exc |-> v.exc, headers |-> <<>>]
             ELSE convert(pairs, k + 1, enc, Append(converted, <<h.val, v.val>>))

\* HttpResponseHeaders.from_bytes_dict(arg, encoding): the headers, a
\* sequence of <<name, value>>, or the exception raised
from_bytes_dict(arg, enc) == convert(items_pairs(arg, 1), 1, enc, <<>>)

\* longest list or tuple of values under one key
MaxList == 2

\* single values: b"x", b"\xc3\xa9", "y", None, 316
FbAtoms == {PyBytes(<<120>>), PyBytes(<<195, 169>>), PyStr(<<121>>), PyNone, PyInt}

\* the values of the model under the first key: single values and lists
FbValues == FbAtoms \cup {PyList(l) : l \in SeqsUpTo(FbAtoms, MaxList)}

\* under the second key: single values and tuples
FbValues2 == FbAtoms \cup {PyTuple(l) : l \in SeqsUpTo(FbAtoms, MaxList)}

\* the keys b"a" and "B"
FbKeys == <<PyBytes(<<97>>), PyStr(<<66>>)>>

\* a dict: its items in insertion order, no key twice
FbMappings ==
    {<<>>} \cup {<< <<FbKeys[1], v>> >> : v \in FbValues}
           \cup {<< <<FbKeys[2], v>> >> : v \in FbValues2}
           \cup {<< <<FbKeys[1], v1>>, <<FbKeys[2], v2>> >> :
                    v1 \in FbValues, v2 \in FbValues2}

FbEncodings == {"utf-8", "ascii"}

InitFromBytes ==
    /\ fb_arg \in FbMappings
    /\ fb_encoding \in FbEncodings
    /\ fb_res = <<>>
    /\ enc_arg = None /\ headers = <<>> /\ body = <<>>
    /\ insts = [i \in Insts |-> FreshInst]
    /\ got = [i \in Insts |-> NoGot]
    /\ IdleThreads /\ IdleUrl
    /\ IdleLookup /\ IdleJson /\ IdleObject /\ IdleBatch /\ IdleFields

\* HttpResponseHeaders.from_bytes_dict(fb_arg, fb_encoding)
FromBytesDict ==
    /\ fb_res = <<>>
    /\ fb_res' = <<from_bytes_dict(fb_arg, fb_encoding)>>
    /\ UNCHANGED <<enc_arg, headers, body, insts, got, pc, loc, seen,
                   url_a, url_b, b_is_str, eq_res, fb_arg, fb_encoding,
                   hdVars, jsonVars, objVars, batchVars, fieldVars>>

NextFromBytes == FromBytesDict

SpecFromBytes == InitFromBytes /\ [][NextFromBytes]_vars

\* the values under the j-th key: the elements of a list or tuple, or the value
FbElems(j) ==
    IF fb_arg[j][2].t \in {"list", "tuple"} THEN fb_arg[j][2].elems ELSE <<fb_arg[j][2]>>

\* how many entries the keys before the j-th give
RECURSIVE FbOffset(_)
FbOffset(j) == IF j = 1 THEN 0 ELSE FbOffset(j - 1) + Len(FbElems(j - 1))

\* a key or value as it is to appear in the headers
FbText(d) ==
    IF d.t = "bytes" THEN PyStr(RawDecode(PyCodec(fb_encoding), d.v)) ELSE d

\* a value that is neither bytes, text nor None is in the mapping
FbBadValue ==
    \E j \in 1..Len(fb_arg) : \E i \in 1..Len(FbElems(j)) : FbElems(j)[i].t = "int"

\* bytes the encoding cannot decode are in the mapping
FbUndecodable ==
    \E j \in 1..Len(fb_arg) : \E i \in 1..Len(FbElems(j)) :
        \E d \in {fb_arg[j][1], FbElems(j)[i]} :
            d.t = "bytes" /\ DecodeFails(PyCodec(fb_encoding), d.v)

(* C11: for keys that are bytes or text and values that are bytes, text,    *)
(* None or a list/tuple of those, from_bytes_dict returns headers where     *)
(* bytes keys and values are decoded with the encoding, text and None pass  *)
(* through, a single value gives one entry and a list or tuple of n values  *)
(* gives n entries under its key in the order of the list.  (It returns     *)
(* unless some bytes do not decode under the encoding.)                     *)
C11_FromBytesDict ==
    (fb_res # <<>> /\ ~FbBadValue) =>
        /\ fb_res[1].exc = None <=> ~FbUndecodable
        /\ fb_res[1].exc = None =>
              /\ Len(fb_res[1].headers) = FbOffset(Len(fb_arg) + 1)
              /\ \A j \in 1..Len(fb_arg) : \A i \in 1..Len(FbElems(j)) :
                    fb_res[1].headers[FbOffset(j) + i]
                        = <<FbText(fb_arg[j][1]), FbText(FbElems(j)[i])>>

\* b"a": [b"\xc3\xa9", None] and "B": "y" with utf-8: three entries
C11_Witness ==
    /\ fb_res # <<>>
    /\ fb_encoding = "utf-8"
    /\ fb_arg = << <<PyBytes(<<97>>), PyList(<<PyBytes(<<195, 169>>), PyNone>>)>>,
                   <<PyStr(<<66>>), PyStr(<<121>>)>> >>
    /\ fb_res[1].exc = None
    /\ fb_res[1].headers = << <<PyStr(<<97>>), PyStr(<<233>>)>>,
                              <<PyStr(<<97>>), PyNone>>,
                              <<PyStr(<<66>>), PyStr(<<121>>)>> >>

(* C12: from_bytes_dict raises a ValueError and returns no headers whenever *)
(* a value, directly or inside a list/tuple, is neither bytes, text nor     *)
(* None, wherever in the mapping it is and whatever comes before it.        *)
C12_BadValueRaises ==
    (fb_res # <<>> /\ FbBadValue) =>
        IsValueError(fb_res[1].exc) /\ fb_res[1].headers = <<>>

\* the bad value is the last element of the last entry, after valid entries
C12_Witness ==
    /\ fb_res # <<>>
    /\ Len(fb_arg) = 2
    /\ fb_arg[1][2] = PyBytes(<<120>>)
    /\ fb_arg[2][2] = PyTuple(<<PyStr(<<121>>), PyInt>>)
    /\ fb_res[1].exc = "ValueError"

----------------------------------------------------------------------------
(* Header containers: HttpRequestHeaders and HttpResponseHeaders, both a    *)
(* case-insensitive multi-valued mapping.  A lookup returns <<value>>, a    *)
(* sequence of values, or raises.                                           *)

\* the positions of the entries whose key equals key ignoring case
key_hits(h, key) == {k \in 1..Len(h) : lower(h[k][1]) = lower(key)}

\* headers.get(key): <<first value>>, <<>> for None
headers_get_none(h, key) ==
    IF headers_get(h, key, EmptyCT) = EmptyCT /\ key_hits(h, key) = {} THEN <<>>
    ELSE <<headers_get(h, key, EmptyCT)>>

\* the values at the positions from k on that are in hits
RECURSIVE values_at(_, _, _)
values_at(h, hits, k) ==
    IF k > Len(h) THEN <<>>
    ELSE (IF k \in hits THEN <<h[k][2]>> ELSE <<>>) \o values_at(h, hits, k + 1)

\* headers.getall(key): every value of the key, in insertion order
headers_getall(h, key) == values_at(h, key_hits(h, key), 1)

\* headers[key]: the first value of the key, or KeyError
headers_getitem(h, key) ==
    IF key_hits(h, key) = {} THEN [exc |-> "KeyError", val |-> <<>>]
    ELSE [exc |-> None, val |-> <<headers_getall(h, key)[1]>>]

\* most entries in a header container of the model
MaxHeaders == 2

HeaderNames == {"Content-Type", "Content-type", "content-type", "X-Other", "x-other"}

\* charset labels of Content-Type values, None for no charset parameter
HeaderCharsets == {None, "utf-8", "UTF8", "iso-8859-1", "gb2312", "gbk", "UNKNOWN"}

HeaderEntries ==
    {<<n, ContentType("text/html", c)>> :
        n \in {"Content-Type", "Content-type", "content-type"}, c \in HeaderCharsets}
      \cup {<<n, ContentType("gzip", None)>> : n \in {"X-Other", "x-other"}}

InitLookup ==
    /\ headers \in SeqsUpTo(HeaderEntries, MaxHeaders)
    /\ hd_res = [op |-> None, key |-> None, exc |-> None, val |-> <<>>]
    /\ enc_arg = None /\ body = <<>>
    /\ insts = [i \in Insts |-> FreshInst]
    /\ got = [i \in Insts |-> NoGot]
    /\ IdleThreads /\ IdleUrl
    /\ IdleFromBytes /\ IdleJson /\ IdleObject /\ IdleBatch /\ IdleFields

\* one lookup on the container, which nothing else changes
LookupFrame ==
    /\ hd_res.op = None
    /\ UNCHANGED <<enc_arg, headers, body, insts, got, pc, loc, seen,
                   url_a, url_b, b_is_str, eq_res,
                   fbVars, jsonVars, objVars, batchVars, fieldVars>>

\* headers.get(key)
Get(key) ==
    /\ hd_res' = [op |-> "get", key |-> key, exc |-> None,
                  val |-> headers_get_none(headers, key)]
    /\ LookupFrame

\* headers.getall(key)
GetAll(key) ==
    /\ hd_res' = [op |-> "getall", key |-> key, exc |-> None,
                  val |-> headers_getall(headers, key)]
    /\ LookupFrame

\* headers[key]
GetItem(key) ==
    /\ \E r \in {headers_getitem(headers, key)} :
          hd_res' = [op |-> "getitem", key |-> key, exc |-> r.exc, val |-> r.val]
    /\ LookupFrame

\* headers.declared_encoding()
DeclaredEncoding ==
    /\ hd_res' = [op |-> "declared_encoding", key |-> "Content-Type", exc |-> None,
                  val |-> <<declared_encoding(headers)>>]
    /\ LookupFrame

NextLookup ==
    \/ \E key \in HeaderNames : Get(key)
    \/ \E key \in HeaderNames : GetAll(key)
    \/ \E key \in HeaderNames : GetItem(key)
    \/ DeclaredEncoding

SpecLookup == InitLookup /\ [][NextLookup]_vars

\* two header names are the same ignoring case
SameName(a, b) ==
    \/ a = b
    \/ {a, b} \subseteq {"Content-Type", "Content-type", "content-type"}
    \/ {a, b} \subseteq {"X-Other", "x-other"}

\* the positions of the entries stored under the looked-up key
Stored == {k \in 1..Len(headers) : SameName(headers[k][1], hd_res.key)}

(* C13: get(name) returns the first value stored under a key that matches   *)
(* name ignoring case and none when there is none; getall(name) returns all *)
(* values of that key in insertion order with their multiplicity;           *)
(* headers[name] raises KeyError when no key matches ignoring case.         *)
C13_Lookup ==
    /\ hd_res.op = "get" =>
          IF Stored = {} THEN hd_res.val = <<>>
          ELSE \E k \in Stored :
                  /\ \A j \in Stored : k <= j
                  /\ hd_res.val = <<headers[k][2]>>
    /\ hd_res.op = "getall" =>
          /\ Len(hd_res.val) = Cardinality(Stored)
          /\ \A i \in 1..Len(hd_res.val) :
                \E k \in Stored :
                   /\ Cardinality({j \in Stored : j <= k}) = i
                   /\ hd_res.val[i] = headers[k][2]
    /\ hd_res.op = "getitem" =>
          (hd_res.exc = "KeyError" <=> Stored = {})

\* a key stored twice under different spellings, with different values
C13_Witness ==
    /\ hd_res.op = "getall"
    /\ hd_res.key = "content-type"
    /\ Len(headers) = 2
    /\ headers[1][1] = "Content-Type" /\ headers[2][1] = "Content-type"
    /\ headers[1][2] # headers[2][2]
    /\ hd_res.val = <<headers[1][2], headers[2][2]>>

\* the charset Python and w3lib resolve a label of the model to
KnownCharset(label) ==
    CASE label \in {"utf-8", "UTF8"}   -> "utf-8"
      [] label = "iso-8859-1"          -> "cp1252"
      [] label \in {"gb2312", "gbk"}   -> "gb18030"
      [] OTHER                         -> None

\* the positions of the Content-Type entries, whatever their case
ContentTypes ==
    {k \in 1..Len(headers) : SameName(headers[k][1], "Content-Type")}

(* C14: declared_encoding() takes the Content-Type key ignoring case and    *)
(* returns the alias-normalized charset: utf-8 and UTF8 give utf-8,         *)
(* iso-8859-1 gives cp1252, gb2312 and gbk give gb18030; None without a     *)
(* Content-Type header, without a charset parameter or for an unknown label.*)
C14_DeclaredEncoding ==
    hd_res.op = "declared_encoding" =>
        IF ContentTypes = {} THEN hd_res.val = <<None>>
        ELSE \E k \in ContentTypes :
                /\ \A j \in ContentTypes : k <= j
                /\ hd_res.val = <<KnownCharset(headers[k][2].charset)>>

\* a lowercase content-type key with charset gbk, after another header
C14_Witness ==
    /\ hd_res.op = "declared_encoding"
    /\ Len(headers) = 2
    /\ headers[1][1] = "X-Other"
    /\ headers[2] = <<"content-type", ContentType("text/html", "gbk")>>
    /\ hd_res.val = <<"gb18030">>

----------------------------------------------------------------------------
(* HttpResponse.json: json.loads(self.body), memoized.                      *)

\* the JSON documents of the model as text, and the objects they stand for
JsonDocuments ==
    [t \in {<<49>>, <<91, 49, 93>>} |-> IF t = <<49>> THEN "1" ELSE "[1]"]

\* json.loads(b) for bytes without UTF-16/UTF-32 marks and without zero
\* bytes: json.detect_encoding gives utf-8-sig after a UTF-8 byte-order-mark
\* and utf-8 otherwise, b.decode raises UnicodeDecodeError for bytes that are
\* not UTF-8, the decoder raises JSONDecodeError for a text that is no JSON
\* document
json_loads(b) ==
    CHOOSE out \in
        {IF ERR \in Range(t) THEN [exc |-> "UnicodeDecodeError", val |-> None]
         ELSE IF t \in DOMAIN JsonDocuments THEN [exc |-> None, val |-> JsonDocuments[t]]
         ELSE [exc |-> "JSONDecodeError", val |-> None] :
            t \in {RawDecode("utf-8", IF startswith(b, <<239, 187, 191>>)
                                      THEN SubSeqFrom(b, 4) ELSE b)}} : TRUE

\* json() keeping the text it decoded in self._cached_text
json_caching_text(r, st) ==
    IF st.m_json # <<>> THEN [exc |-> None, val |-> st.m_json[1], st |-> st]
    ELSE CHOOSE out \in
        {IF j.exc # None THEN [exc |-> j.exc, val |-> None, st |-> st]
         ELSE [exc |-> None, val |-> j.val,
               st |-> [st EXCEPT !.m_json = <<j.val>>,
                                 !.cached_text = <<DecodeReplace("utf-8", r.body)>>]] :
            j \in {json_loads(r.body)}} : TRUE

\* HttpResponse.json: self.body.json() behind memoizemethod_noargs; a call
\* that raises leaves nothing in the cache
json(r, st) ==
    IF st.m_json # <<>> THEN [exc |-> None, val |-> st.m_json[1], st |-> st]
    ELSE CHOOSE out \in
        {IF j.exc # None THEN [exc |-> j.exc, val |-> None, st |-> st]
         ELSE memoizemethod_noargs(st, "m_json", [val |-> j.val, st |-> st]) @@
              [exc |-> None] :
            j \in {json_loads(r.body)}} : TRUE

\* b"1", b"[1]", b"\xef\xbb\xbf1"; b"A", b"[", b"" that are no JSON
\* documents; b"\x81" and b"[\x9c]" that are not UTF-8
JsonBodies ==
    {<<49>>, <<91, 49, 93>>, <<239, 187, 191, 49>>,
     <<65>>, <<91>>, <<>>, <<129>>, <<91, 156, 93>>}

JsonEncodings == {None, "latin1"}

JsonHeaders ==
    {<<>>, << <<"Content-type", ContentType("application/json", "utf-8")>> >>}

InitJson ==
    /\ enc_arg \in JsonEncodings
    /\ headers \in JsonHeaders
    /\ body \in JsonBodies
    /\ insts = [i \in Insts |-> FreshInst]
    /\ got = [i \in Insts |-> NoGot]
    /\ json_got = [i \in Insts |-> {}]
    /\ IdleThreads /\ IdleUrl
    /\ IdleFromBytes /\ IdleLookup /\ IdleObject /\ IdleBatch /\ IdleFields

\* response.json()
AccessJson(i) ==
    \E res \in {json(Resp, insts[i])} :
        /\ insts' = [insts EXCEPT ![i] = res.st]
        /\ json_got' = [json_got EXCEPT ![i] = @ \cup {[exc |-> res.exc, val |-> res.val]}]
        /\ UNCHANGED <<enc_arg, headers, body, got, pc, loc, seen,
                       url_a, url_b, b_is_str, eq_res,
                       fbVars, hdVars, objVars, batchVars, fieldVars>>

NextJson ==
    \/ \E i \in Insts : AccessEncoding(i)
    \/ \E i \in Insts : AccessText(i)
    \/ \E i \in Insts : AccessJson(i)

SpecJson == InitJson /\ [][NextJson]_vars

\* the bodies of the model that are JSON documents, and their objects
WellFormed ==
    [b \in {<<49>>, <<91, 49, 93>>, <<239, 187, 191, 49>>} |->
        IF b = <<91, 49, 93>> THEN "[1]" ELSE "1"]

\* text and encoding return what they return on a response whose json() is
\* never called
JsonLeavesTextAlone ==
    \A i \in Insts :
        /\ got[i].encs \subseteq {SequentialEncoding}
        /\ \A ref \in {SequentialText} :
              /\ got[i].raised => ref.raised
              /\ got[i].texts \subseteq {ref.val}

(* C15 as claimed: json() returns the JSON decoding of the body and raises  *)
(* a JSON decode error on a malformed body; calling it before, between or   *)
(* after accesses to text and encoding never changes what these return, and *)
(* its result depends neither on the explicit encoding, nor on the headers, *)
(* nor on the accesses to text and encoding.                                *)
C15_JsonDecodeError ==
    /\ JsonLeavesTextAlone
    /\ \A i \in Insts : \A j \in json_got[i] :
          IF body \in DOMAIN WellFormed
          THEN j = [exc |-> None, val |-> WellFormed[body]]
          ELSE j = [exc |-> "JSONDecodeError", val |-> None]

(* C15: json() returns the JSON decoding of the body; on a malformed body   *)
(* it raises a JSON decode error, or a Unicode decode error when the bytes  *)
(* are not valid UTF-8; calling it before, between or after accesses to     *)
(* text and encoding never changes what these return, and its result        *)
(* depends neither on the explicit encoding, nor on the headers, nor on the *)
(* accesses to text and encoding.                                           *)
C15_JsonIndependent ==
    /\ JsonLeavesTextAlone
    /\ \A i \in Insts : \A j \in json_got[i] :
          IF body \in DOMAIN WellFormed
          THEN j = [exc |-> None, val |-> WellFormed[body]]
          ELSE /\ j.val = None
               /\ j.exc = IF DecodeFails("utf-8", body) THEN "UnicodeDecodeError"
                          ELSE "JSONDecodeError"

\* on one response json() came between encoding and text, on the other
\* before them; the body starts with a byte-order-mark that text strips
C15_Witness ==
    /\ body = <<239, 187, 191, 49>>
    /\ got[1].first = "encoding" /\ got[1].texts = {<<49>>}
    /\ got[2].first = "text" /\ got[2].texts = {<<49>>}
    /\ insts[1].m_json # <<>> /\ insts[1].passes = 1
    /\ json_got[1] = {[exc |-> None, val |-> "1"]}
    /\ json_got[2] = {[exc |-> None, val |-> "1"]}

----------------------------------------------------------------------------
(* C19: over any sequence of accesses to text and encoding of one response  *)
(* the decoding pass that produces the text, an html_to_unicode call, runs  *)
(* at most once: after encoding ran the body-inferred step and cached the   *)
(* text, text decodes nothing, and once the text is cached no access        *)
(* decodes again.                                                           *)
C19_AtMostOnePass == \A i \in Insts : insts[i].passes <= 1

\* encoding, then text, with nothing declared: the one pass is that of the
\* body-inferred step
C19_Witness ==
    /\ NoDeclared
    /\ got[1].first = "encoding"
    /\ got[1].texts # {}
    /\ insts[1].m_inferred # <<>>
    /\ insts[1].passes = 1

----------------------------------------------------------------------------
(* HttpRequest and HttpResponse objects: construction through the attrs     *)
(* converters, and assignment to their attributes.                          *)

\* the integer n
PyIntOf(n) == [t |-> "int", v |-> <<n>>, elems |-> <<>>]

\* HttpRequestBody(x) / HttpResponseBody(x), that is bytes(x): a copy of
\* bytes, n zero bytes for the integer n, TypeError for str and None
bytes_new(x) ==
    CASE x.t = "bytes" -> [exc |-> None, val |-> x.v]
      [] x.t = "int"   -> [exc |-> None, val |-> [k \in 1..x.v[1] |-> 0]]
      [] OTHER         -> [exc |-> "TypeError", val |-> <<>>]

ObjClasses == {"HttpRequest", "HttpResponse"}

\* url arguments
ObjUrls == {"http://example.com", "https://other.org/foo"}

\* body arguments: b"a", b"", "a", None, 1, 2
ObjBodies ==
    {PyBytes(<<97>>), PyBytes(<<>>), PyStr(<<97>>), PyNone, PyIntOf(1), PyIntOf(2)}

InitObject ==
    /\ obj = <<>> /\ obj_init = <<>> /\ ctor_exc = None
    /\ enc_arg = None /\ headers = <<>> /\ body = <<>>
    /\ insts = [i \in Insts |-> FreshInst]
    /\ got = [i \in Insts |-> NoGot]
    /\ IdleThreads /\ IdleUrl
    /\ IdleFromBytes /\ IdleLookup /\ IdleJson /\ IdleBatch /\ IdleFields

ObjectFrame ==
    UNCHANGED <<enc_arg, headers, body, insts, got, pc, loc, seen,
                url_a, url_b, b_is_str, eq_res,
                fbVars, hdVars, jsonVars, batchVars, fieldVars>>

\* cls(url, body=b): the generated __init__ runs the converter of each field
Construct(cls, url, b) ==
    /\ obj_init = <<>>
    /\ obj_init' = <<[cls |-> cls, url |-> url, body |-> b]>>
    /\ \E conv \in {bytes_new(b)} :
          IF conv.exc # None
          THEN /\ ctor_exc' = conv.exc
               /\ obj' = obj
          ELSE /\ ctor_exc' = ctor_exc
               /\ obj' = <<[cls |-> cls, url |-> Url_init(url), body |-> conv.val]>>
    /\ ObjectFrame

\* obj.body = b: the class is not frozen, so attrs runs the converter of the
\* field and stores the result
SetBody(b) ==
    /\ obj # <<>>
    /\ \E conv \in {bytes_new(b)} :
          /\ conv.exc = None
          /\ obj' = <<[obj[1] EXCEPT !.body = conv.val]>>
    /\ UNCHANGED <<obj_init, ctor_exc>>
    /\ ObjectFrame

\* obj.url = url
SetUrl(url) ==
    /\ obj # <<>>
    /\ obj' = <<[obj[1] EXCEPT !.url = Url_init(url)]>>
    /\ UNCHANGED <<obj_init, ctor_exc>>
    /\ ObjectFrame

NextObject ==
    \/ \E cls \in ObjClasses, url \in ObjUrls, b \in ObjBodies : Construct(cls, url, b)
    \/ \E b \in ObjBodies : SetBody(b)
    \/ \E url \in ObjUrls : SetUrl(url)

SpecObject == InitObject /\ [][NextObject]_vars

(* C16: after construction the fields of an HttpRequest or HttpResponse     *)
(* cannot be changed: no operation on the object, assignment to an          *)
(* attribute included, replaces the value of a field.                       *)
C16_FieldsImmutable ==
    obj # <<>> =>
        /\ Url_str(obj[1].url) = obj_init[1].url
        /\ obj[1].body = bytes_new(obj_init[1].body).val

(* C17: constructing an HttpRequest or HttpResponse with a body that is not *)
(* bytes raises TypeError and produces no object, for a text body, for a    *)
(* None body and for a body of any other type such as an integer.           *)
C17_BodyTypeError ==
    (obj_init # <<>> /\ obj_init[1].body.t # "bytes") =>
        ctor_exc = "TypeError" /\ obj = <<>>

----------------------------------------------------------------------------
(* HttpClient.batch_execute: one download per request, awaited together     *)
(* through asyncio.gather.                                                  *)

\* longest list of requests given to batch_execute
MaxRequests == 3

\* the request objects
BatchRequests == {"req_a", "req_b"}

\* the *requests argument lists, the empty one and repeated requests included
RequestLists == UNION {[1..n -> BatchRequests] : n \in 0..MaxRequests}

\* what the downloader started for the i-th argument produces: a response
\* or an exception of its own
Response(i, r) == [t |-> "HttpResponse", of |-> i, request |-> r]

Failure(i, r) == [t |-> "Exception", of |-> i, request |-> r]

\* the request_downloader arguments of HttpClient: none, or a callable
Downloaders == {None, "custom_downloader"}

\* HttpClient(request_downloader)._request_downloader
HttpClient_init(request_downloader) ==
    IF request_downloader = None THEN "_perform_request" ELSE request_downloader

\* [self._request_downloader(r) for r in requests]: one coroutine per
\* argument, in the order of the arguments
start_downloads(downloader, requests) ==
    [i \in 1..Len(requests) |->
        [downloader |-> downloader, request |-> requests[i],
         outcome |-> <<>>, seq |-> 0]]

\* the downloads that have finished
Finished(ts) == {i \in 1..Len(ts) : ts[i].outcome # <<>>}

\* the outcomes in the order the downloads finished
gather_results_as_completed(ts) ==
    [k \in 1..Len(ts) |-> ts[CHOOSE i \in 1..Len(ts) : ts[i].seq = k].outcome[1]]

\* the result list of asyncio.gather: the outcome of each awaitable at the
\* position of that awaitable among the arguments
gather_results(ts) ==
    [k \in 1..Len(ts) |-> ts[k].outcome[1]]

\* the gather future right after asyncio.gather(*coroutines, ...): already
\* done with [] when there is nothing to wait for
gather_new(requests, return_exceptions) ==
    [requests |-> requests, return_exceptions |-> return_exceptions,
     done |-> requests = <<>>, exc |-> <<>>,
     result |-> IF requests = <<>> THEN << <<>> >> ELSE <<>>]

\* the done callback gather attaches to every awaitable, run with the
\* downloads ts when one of them has just finished with outcome out
gather_done_callback(g, ts, out) ==
    IF g.done THEN g
    ELSE IF ~g.return_exceptions /\ out.t = "Exception"
         THEN [g EXCEPT !.done = TRUE, !.exc = <<out>>]
    ELSE IF Finished(ts) = 1..Len(ts)
         THEN [g EXCEPT !.done = TRUE, !.result = <<gather_results(ts)>>]
    ELSE g

InitBatch ==
    /\ tasks = <<>> /\ gather = <<>> /\ batch_ret = <<>>
    /\ enc_arg = None /\ headers = <<>> /\ body = <<>>
    /\ insts = [i \in Insts |-> FreshInst]
    /\ got = [i \in Insts |-> NoGot]
    /\ IdleThreads /\ IdleUrl
    /\ IdleFromBytes /\ IdleLookup /\ IdleJson /\ IdleObject /\ IdleFields

BatchFrame ==
    UNCHANGED <<enc_arg, headers, body, insts, got, pc, loc, seen,
                url_a, url_b, b_is_str, eq_res,
                fbVars, hdVars, jsonVars, objVars, fieldVars>>

\* HttpClient(request_downloader).batch_execute(*requests,
\* return_exceptions=...) up to its await
BatchExecute(request_downloader, requests, return_exceptions) ==
    /\ gather = <<>>
    /\ tasks' = start_downloads(HttpClient_init(request_downloader), requests)
    /\ gather' = <<gather_new(requests, return_exceptions)>>
    /\ UNCHANGED batch_ret
    /\ BatchFrame

\* the i-th download finishes, with a response if ok and an exception if
\* not, and gather's callback runs
Finish(i, ok) ==
    /\ gather # <<>>
    /\ i \in 1..Len(tasks)
    /\ tasks[i].outcome = <<>>
    /\ \E out \in {IF ok THEN Response(i, tasks[i].request)
                         ELSE Failure(i, tasks[i].request)} :
       \E ts \in {[tasks EXCEPT ![i].outcome = <<out>>,
                                ![i].seq = Cardinality(Finished(tasks)) + 1]} :
          /\ tasks' = ts
          /\ gather' = <<gather_done_callback(gather[1], ts, out)>>
    /\ UNCHANGED batch_ret
    /\ BatchFrame

\* the await ends: batch_execute returns the result of gather or raises
\* its exception
Return ==
    /\ gather # <<>>
    /\ gather[1].done
    /\ batch_ret = <<>>
    /\ batch_ret' = <<[raised |-> gather[1].exc, value |-> gather[1].result]>>
    /\ UNCHANGED <<tasks, gather>>
    /\ BatchFrame

NextBatch ==
    \/ \E d \in Downloaders, requests \in RequestLists,
          return_exceptions \in BOOLEAN :
          BatchExecute(d, requests, return_exceptions)
    \/ \E i \in 1..MaxRequests, ok \in BOOLEAN : Finish(i, ok)
    \/ Return

SpecBatch == InitBatch /\ [][NextBatch]_vars

\* the downloads that have failed
Failed(ts) == {i \in Finished(ts) : ts[i].outcome[1].t = "Exception"}

(* C18: batch_execute starts the downloader of the client (the one given to *)
(* HttpClient, else the default) once for every request, in the order       *)
(* given.  When it returns, it returns one result per request, at the *)
(* position of that request whatever order the downloads finished in.  With *)
(* return_exceptions false it raises as soon as a download fails, and the   *)
(* exception is that of the download that failed (the first to fail when    *)
(* several do); it returns only when no download failed.  With              *)
(* return_exceptions true it never raises and the exception of a failed     *)
(* download stands at the position of its request, next to the responses.   *)
C18_BatchExecute ==
    /\ gather # <<>> =>
          /\ Len(tasks) = Len(gather[1].requests)
          /\ \A i \in 1..Len(tasks) :
                /\ tasks[i].request = gather[1].requests[i]
                /\ tasks[i].downloader \in {"_perform_request", "custom_downloader"}
    /\ batch_ret # <<>> =>
          /\ gather[1].return_exceptions => batch_ret[1].raised = <<>>
          /\ (~gather[1].return_exceptions /\ Failed(tasks) # {}) =>
                /\ batch_ret[1].raised # <<>>
                /\ \E i \in Failed(tasks) :
                      /\ batch_ret[1].raised[1] = Failure(i, gather[1].requests[i])
                      /\ \A j \in Failed(tasks) : tasks[i].seq <= tasks[j].seq
          /\ batch_ret[1].raised = <<>> =>
                /\ batch_ret[1].value # <<>>
                /\ Len(batch_ret[1].value[1]) = Len(gather[1].requests)
                /\ \A i \in 1..Len(gather[1].requests) :
                      batch_ret[1].value[1][i] \in
                          {Response(i, gather[1].requests[i]),
                           Failure(i, gather[1].requests[i])}
                /\ \A i \in Failed(tasks) :
                      batch_ret[1].value[1][i] = Failure(i, gather[1].requests[i])

\* three requests with return_exceptions true: the second fails first, the
\* first finishes last, and the call has returned
C18_Witness ==
    /\ batch_ret # <<>>
    /\ gather[1].return_exceptions
    /\ Len(tasks) = 3
    /\ tasks[1].downloader = "custom_downloader"
    /\ tasks[2].seq = 1 /\ tasks[1].seq = 3
    /\ Failed(tasks) = {2}
    /\ batch_ret[1].raised = <<>>

----------------------------------------------------------------------------
(* Fields: the registry of @field names kept on every class, written by     *)
(* _field.__set_name__ and merged by FieldsMixin.__init_subclass__ while a  *)
(* class is being created.  classes[1] is FieldsMixin itself.               *)

\* most classes defined besides FieldsMixin
MaxClasses == 3

\* most base classes of one class
MaxBases == 2

FIELDS_INFO_ATTRIBUTE_READ == "_web_poet_fields_info"

FIELDS_INFO_ATTRIBUTE_WRITE == "_web_poet_fields_info_temp"

\* the methods a class body may decorate with @field, in body order
FieldNames == <<"x", "y">>

\* {}
EmptyDict == [n \in {} |-> None]

\* FieldInfo(name=name, meta=meta, out=out); meta tells apart the fields of
\* the same name defined in different classes
FieldInfo(name, meta) == [name |-> name, meta |-> meta]

\* the class FieldsMixin
FieldsMixin == [bases |-> <<>>, mro |-> <<1>>, own |-> EmptyDict,
                attrs |-> EmptyDict, at_def |-> EmptyDict]

\* the heads that may come next in the C3 merge: the indices of the lists
\* whose head is in the tail of no list
c3_good(seqs) ==
    {i \in 1..Len(seqs) :
        /\ seqs[i] # <<>>
        /\ \A j \in 1..Len(seqs) :
              seqs[j] # <<>> => Head(seqs[i]) \notin Range(Tail(seqs[j]))}

\* the lists of the C3 merge once the class h has been taken
c3_drop(seqs, h) ==
    [j \in 1..Len(seqs) |->
        IF seqs[j] # <<>> /\ Head(seqs[j]) = h THEN Tail(seqs[j]) ELSE seqs[j]]

\* the C3 merge of type.__new__: the next class is the head of the first
\* list that is in the tail of no list; it ends with 0 if there is none
\* (TypeError: cannot create a consistent method resolution order)
RECURSIVE c3_merge(_)
c3_merge(seqs) ==
    IF \A i \in 1..Len(seqs) : seqs[i] = <<>> THEN <<>>
    ELSE IF c3_good(seqs) = {} THEN <<0>>
    ELSE <<Head(seqs[CHOOSE i \in c3_good(seqs) : \A j \in c3_good(seqs) : i <= j])>>
         \o c3_merge(c3_drop(seqs,
                Head(seqs[CHOOSE i \in c3_good(seqs) : \A j \in c3_good(seqs) : i <= j])))

\* cls.__mro__ of a new class k with the given bases
mro_new(cs, k, bases) ==
    <<k>> \o c3_merge([j \in 1..Len(bases) |-> cs[bases[j]].mro] \o <<bases>>)

\* the class in whose __dict__ getattr(cls, attr) finds attr: the first
\* one along cls.__mro__, 0 if no class has it
getattr_owner(cs, k, attr) ==
    IF \A j \in 1..Len(cs[k].mro) : attr \notin DOMAIN cs[cs[k].mro[j]].attrs
    THEN 0
    ELSE cs[k].mro[CHOOSE j \in 1..Len(cs[k].mro) :
                      /\ attr \in DOMAIN cs[cs[k].mro[j]].attrs
                      /\ \A i \in 1..(j - 1) : attr \notin DOMAIN cs[cs[k].mro[i]].attrs]

\* getattr(cls, attr, {})
getattr_dict(cs, k, attr) ==
    IF getattr_owner(cs, k, attr) = 0 THEN EmptyDict
    ELSE cs[getattr_owner(cs, k, attr)].attrs[attr]

\* setattr(owner, _FIELDS_INFO_ATTRIBUTE_WRITE, {}) when hasattr finds none,
\* on the class or on any class it inherits from
ensure_write(cs, owner) ==
    IF getattr_owner(cs, owner, FIELDS_INFO_ATTRIBUTE_WRITE) = 0
    THEN [cs EXCEPT ![owner].attrs = (FIELDS_INFO_ATTRIBUTE_WRITE :> EmptyDict) @@ @]
    ELSE cs

\* getattr(owner, _FIELDS_INFO_ATTRIBUTE_WRITE)[name] = field_info: the item
\* is stored in the dict object that getattr finds
store_field(cs, owner, name, info) ==
    [cs EXCEPT ![getattr_owner(cs, owner, FIELDS_INFO_ATTRIBUTE_WRITE)]
                   .attrs[FIELDS_INFO_ATTRIBUTE_WRITE] = (name :> info) @@ @]

\* _field.__set_name__(owner, name)
set_name(cs, owner, name) ==
    store_field(ensure_write(cs, owner), owner, name, FieldInfo(name, owner))

\* type.__new__ calls __set_name__ for the names of the class body in order
RECURSIVE set_names(_, _, _, _)
set_names(cs, owner, names, j) ==
    IF j > Len(names) THEN cs
    ELSE set_names(set_name(cs, owner, names[j]), owner, names, j + 1)

\* base_fields after the loop over cls.__bases__ from the j-th base on
RECURSIVE base_fields_from(_, _, _, _)
base_fields_from(cs, bases, j, base_fields) ==
    IF j > Len(bases) THEN base_fields
    ELSE base_fields_from(cs, bases, j + 1,
             getattr_dict(cs, bases[j], FIELDS_INFO_ATTRIBUTE_READ) @@ base_fields)

\* delattr(cls, attr) under suppress(AttributeError): the attribute is
\* removed if the class itself has it
delattr(d, attr) == [a \in DOMAIN d \ {attr} |-> d[a]]

\* setattr(cls, _FIELDS_INFO_ATTRIBUTE_READ, {**base_fields,
\* **this_class_fields}) and the delattr of the temporary attribute
merge_fields(cs, k, base_fields, this_class_fields) ==
    [cs EXCEPT ![k].attrs =
        delattr((FIELDS_INFO_ATTRIBUTE_READ :> (this_class_fields @@ base_fields)) @@ @,
                FIELDS_INFO_ATTRIBUTE_WRITE)]

\* FieldsMixin.__init_subclass__(cls)
init_subclass(cs, k) ==
    IF /\ DOMAIN base_fields_from(cs, cs[k].bases, 1, EmptyDict) = {}
       /\ DOMAIN getattr_dict(cs, k, FIELDS_INFO_ATTRIBUTE_WRITE) = {}
    THEN cs
    ELSE merge_fields(cs, k, base_fields_from(cs, cs[k].bases, 1, EmptyDict),
                      getattr_dict(cs, k, FIELDS_INFO_ATTRIBUTE_WRITE))

\* get_fields_dict(cls)
get_fields_dict(cs, k) == getattr_dict(cs, k, FIELDS_INFO_ATTRIBUTE_READ)

\* the names of FieldNames that are in the set names, in body order
RECURSIVE body_names(_, _)
body_names(names, j) ==
    IF j > Len(FieldNames) THEN <<>>
    ELSE (IF FieldNames[j] \in names THEN <<FieldNames[j]>> ELSE <<>>)
         \o body_names(names, j + 1)

\* the lists of distinct base classes a new class may name
BaseLists(cs) ==
    {bases \in UNION {[1..n -> 1..Len(cs)] : n \in 0..MaxBases} :
        \A i, j \in 1..Len(bases) : i # j => bases[i] # bases[j]}

\* the class object as type.__new__ has it before the hooks run: own and
\* at_def record what the body defines and what get_fields_dict gave first
new_class(cs, bases, names) ==
    [bases |-> bases, mro |-> mro_new(cs, Len(cs) + 1, bases),
     own |-> [n \in names |-> FieldInfo(n, Len(cs) + 1)],
     attrs |-> EmptyDict, at_def |-> EmptyDict]

\* the classes after `class K(*bases): ...` with the given @field names:
\* __set_name__ of every field, then __init_subclass__ if K derives from
\* FieldsMixin
class_created(cs, bases, names) ==
    CHOOSE out \in
        {IF 1 \in Range(c1[Len(c1)].mro) THEN init_subclass(c1, Len(c1)) ELSE c1 :
            c1 \in {set_names(Append(cs, new_class(cs, bases, names)),
                              Len(cs) + 1, body_names(names, 1), 1)}} : TRUE

InitFields ==
    /\ classes = <<FieldsMixin>>
    /\ fld = None /\ page_cache = None /\ proc_calls = None
    /\ enc_arg = None /\ headers = <<>> /\ body = <<>>
    /\ insts = [i \in Insts |-> FreshInst]
    /\ got = [i \in Insts |-> NoGot]
    /\ IdleThreads /\ IdleUrl
    /\ IdleFromBytes /\ IdleLookup /\ IdleJson /\ IdleObject /\ IdleBatch

FieldsFrame ==
    UNCHANGED <<enc_arg, headers, body, insts, got, pc, loc, seen,
                url_a, url_b, b_is_str, eq_res,
                fbVars, hdVars, jsonVars, objVars, batchVars>>

\* a class statement: a TypeError of the method resolution order leaves no
\* class behind
DefineClass(bases, names) ==
    /\ Len(classes) <= MaxClasses
    /\ 0 \notin Range(mro_new(classes, Len(classes) + 1, bases))
    /\ \E cs \in {class_created(classes, bases, names)} :
          classes' = [cs EXCEPT ![Len(cs)].at_def = get_fields_dict(cs, Len(cs))]
    /\ UNCHANGED <<fld, page_cache, proc_calls>>
    /\ FieldsFrame

NextFields ==
    \E bases \in BaseLists(classes), names \in SUBSET Range(FieldNames) :
        DefineClass(bases, names)

SpecFields == InitFields /\ [][NextFields]_vars

(* C20: the field registry is never shared between classes.  Every field in *)
(* get_fields_dict of a class was defined with @field in that class or in   *)
(* a class it derives from, so a field never shows up in a sibling or       *)
(* unrelated class; get_fields_dict of a class is not altered by classes    *)
(* defined later; and in a class deriving from FieldsMixin the dict has the *)
(* fields of its bases, overridden by the fields of its own body.           *)
C20_RegistryNotShared ==
    \A k \in 2..Len(classes) :
        /\ \A n \in DOMAIN get_fields_dict(classes, k) :
              \E c \in Range(classes[k].mro) :
                  /\ n \in DOMAIN classes[c].own
                  /\ classes[c].own[n] = get_fields_dict(classes, k)[n]
        /\ get_fields_dict(classes, k) = classes[k].at_def
        /\ 1 \in Range(classes[k].mro) =>
              /\ \A n \in DOMAIN classes[k].own :
                    /\ n \in DOMAIN get_fields_dict(classes, k)
                    /\ get_fields_dict(classes, k)[n] = classes[k].own[n]
              /\ \A j \in 1..Len(classes[k].bases) :
                    DOMAIN get_fields_dict(classes, classes[k].bases[j])
                        \subseteq DOMAIN get_fields_dict(classes, k)

----------------------------------------------------------------------------
(* Agreement of HttpResponse.text with HttpResponse.encoding                *)

(* C21: text is the body decoded under the encoding that the encoding       *)
(* property of the same response reports: Python has a codec for the        *)
(* reported label, and text is the body decoded by that codec with invalid  *)
(* bytes replaced, with or without the byte-order-mark of that codec        *)
(* removed.  It holds for an explicit label that the normalization table    *)
(* does not recognize or that is an alias of another codec as well.         *)
C21_TextMatchesEncoding ==
    \A i \in Insts : \A e \in got[i].encs : \A t \in got[i].texts :
        /\ PyCodec(e) # None
        /\ PyCodec(e) \in TextCodecs =>
              \/ t = DecodeReplace(PyCodec(e), body)
              \/ /\ StartsWithBomOf(PyCodec(e))
                 /\ t = DecodeReplace(PyCodec(e),
                            SubSeqFrom(body, Len(BomBytes(PyCodec(e))) + 1))

----------------------------------------------------------------------------
(* Field processors: one _field descriptor of a page object class, declared *)
(* with @field(out=[...], cached=...), and the accesses to it.  An instance *)
(* is <<>> for None (access on the class) or <<p>> for the page object p.   *)

\* number of page objects of the class
NPages == 2

\* longest out list
MaxOut == 2

PageObjects == 1..NPages

\* the processors: def plain(value), def with_instance(value, instance)
Processors == {"plain", "with_instance"}

OutLists == UNION {[1..n -> Processors] : n \in 0..MaxOut}

\* _field.__init__, with out and cached of the enclosing field(...) call
field_new(out, cached) ==
    [out |-> out, cached |-> cached, unbound_method |-> <<>>, processors |-> <<>>]

\* the pairs (processor, "instance" in sig.parameters) that __get__ appends
\* to self.processors
processors_of(out) ==
    [j \in 1..Len(out) |->
        [processor |-> out[j], takes_instance |-> out[j] = "with_instance"]]

\* _processed(method, instance): the wrapper, which closes over instance
processed_new(instance) == [instance |-> instance]

\* the first part of __get__: while self.unbound_method is None, fill
\* self.processors and build the wrapper with the instance of this access
get_bind(f, instance) ==
    IF f.unbound_method = <<>>
    THEN [f EXCEPT !.processors = @ \o processors_of(f.out),
                   !.unbound_method = <<processed_new(instance)>>]
    ELSE f

\* _process(value, instance) on behalf of page object p: the calls it makes,
\* each with the instance keyword it passes, <<>> when it passes none
process_calls(f, p, instance) ==
    {[on |-> p, processor |-> j,
      takes_instance |-> f.processors[j].takes_instance,
      instance |-> IF f.processors[j].takes_instance THEN <<instance>> ELSE <<>>] :
        j \in 1..Len(f.processors)}

\* the value the field returns for p: the attribute of the validation item,
\* or the result of the method after the processors
field_value(p, from) == [of |-> p, from |-> from]

\* cached_method: the value kept for the page object, if there is one
cached_value(f, cache, p) == IF f.cached THEN cache[p] ELSE <<>>

InitProcess ==
    /\ fld \in {field_new(out, cached) : out \in OutLists, cached \in BOOLEAN}
    /\ page_cache = [p \in PageObjects |-> <<>>]
    /\ proc_calls = {}
    /\ classes = None
    /\ enc_arg = None /\ headers = <<>> /\ body = <<>>
    /\ insts = [i \in Insts |-> FreshInst]
    /\ got = [i \in Insts |-> NoGot]
    /\ IdleThreads /\ IdleUrl
    /\ IdleFromBytes /\ IdleLookup /\ IdleJson /\ IdleObject /\ IdleBatch

ProcessFrame ==
    UNCHANGED <<classes, enc_arg, headers, body, insts, got, pc, loc, seen,
                url_a, url_b, b_is_str, eq_res,
                fbVars, hdVars, jsonVars, objVars, batchVars>>

\* Page.name on the class: __get__(None, owner) builds the wrapper and calls
\* it with None, where args[0]._validate_input() raises AttributeError
GetOnClass ==
    /\ fld' = get_bind(fld, <<>>)
    /\ UNCHANGED <<page_cache, proc_calls>>
    /\ ProcessFrame

\* p.name on the page object p: __get__(p, owner); valid tells whether
\* p._validate_input() returns None
GetOnPage(p, valid) ==
    /\ \E f \in {get_bind(fld, <<p>>)} :
          /\ fld' = f
          /\ IF cached_value(f, page_cache, p) # <<>>
             THEN UNCHANGED <<page_cache, proc_calls>>
             ELSE /\ proc_calls' =
                        IF valid
                        THEN proc_calls \cup
                                 process_calls(f, p, f.unbound_method[1].instance)
                        ELSE proc_calls
                  /\ page_cache' =
                        IF f.cached
                        THEN [page_cache EXCEPT ![p] =
                                 <<field_value(p, IF valid THEN "method"
                                                           ELSE "validation_item")>>]
                        ELSE page_cache
    /\ ProcessFrame

NextProcess ==
    \/ GetOnClass
    \/ \E p \in PageObjects, valid \in BOOLEAN : GetOnPage(p, valid)

SpecProcess == InitProcess /\ [][NextProcess]_vars

(* C22: a processor of the field that takes an instance parameter receives, *)
(* on every access to the field on a page object, that same page object as  *)
(* instance, whatever the number of page objects and the order of their     *)
(* accesses.                                                                *)
C22_InstancePassed ==
    \A c \in proc_calls : c.takes_instance => c.instance = << <<c.on>> >>

====
